---- MODULE Spec2Model ----
(***************************************************************************)
(* Offline mutation queue and reconnect sync of the tabi client:          *)
(* lib/offline (queueMutation, removeMutation, flushMutationQueue,        *)
(* onConnectivityChange), the write hooks of hooks/useTrip and the flush  *)
(* effect of App; the cache functions of lib/offline and the read hooks   *)
(* with their realtime channels; the remove_trip_member and               *)
(* invite_trip_member functions of the database, the triggers that run    *)
(* when a trip is inserted, the day lookups and the request router of the *)
(* api edge function, and the selected-trip effect of App.                *)
(*                                                                         *)
(* Every await of the code is a step boundary.  idb-keyval runs the       *)
(* requests against one object store in the order they were issued, so a  *)
(* get reads the store as it is when the get is issued and a set takes    *)
(* effect when it is issued; what runs between two steps of one call is   *)
(* any step of any other call.                                            *)
(***************************************************************************)
EXTENDS Integers, Sequences, FiniteSets, TLC

\* ---------------------------------------------------------------- bounds
\* ids that crypto.randomUUID hands out (mutations ever pushed)
MaxMutations == 4
\* hook calls a run starts
MaxCalls == 2
\* environment events of a run: connectivity changes, effect re-runs, restarts,
\* clears
MaxEvents == 2

CallSlots == {1, 2}
DrainSlots == {1, 2}

\* ---------------------------------------------------------------- data
Tables == {"trips", "trip_days", "itinerary_items"}

NoMutation == [id |-> 0, type |-> "none", table |-> "none", payload |-> <<>>]

\* the lists as the first fetch of a session paints them
LoadedTrips == <<[id |-> 1, name |-> 0, start_date |-> 1]>>
LoadedDays == <<[id |-> 1, title |-> 0]>>
LoadedItems == <<[id |-> 1, title |-> 0, sort_order |-> 0],
                 [id |-> 2, title |-> 0, sort_order |-> 1]>>

\* first id the database's uuid default hands out in the model
FirstServerId == 3

\* ---------------------------------------------------------------- store keys
\* A key of the idb-keyval store is the sequence of the pieces it is put
\* together from; startsWith looks at the first piece.
CACHE_PREFIX == "tabi_"

\* 'tabi_mutation_queue'
QUEUE_KEY == <<"tabi_", "mutation_queue">>

\* `${CACHE_PREFIX}days_${tripId}`
DaysKey(trip) == <<CACHE_PREFIX, "days_", trip>>

\* variant of the items key: the day id is left out
ItemsKeyShared(day) == <<CACHE_PREFIX, "items_">>

\* `${CACHE_PREFIX}items_${dayId}`
ItemsKey(day) == <<CACHE_PREFIX, "items_", day>>

\* the trips and days the snapshots are kept for
TripIds == {1, 2}
DayIds == {1, 2}

CacheKeys == {DaysKey(t) : t \in TripIds} \cup {ItemsKey(d) : d \in DayIds}

\* the trip and the day the mounted useTripDays and useItems are called with
tripId == 1
dayId == 1

\* the snapshots the first fetch of a session wrote
LoadedCache ==
  [k \in CacheKeys |-> IF k = DaysKey(tripId) THEN LoadedDays
                       ELSE IF k = ItemsKey(dayId) THEN LoadedItems ELSE <<>>]

VARIABLES
  online,     \* navigator.onLine
  listeners,  \* number of (handleOnline, handleOffline) pairs registered on window
  queue,      \* the idb-keyval value under QUEUE_KEY
  nextId,     \* ids crypto.randomUUID has handed out so far
  remote,     \* the database: table -> rows, and the next generated id
  trips,      \* useTrips state
  days,       \* useTripDays state
  items,      \* useItems state
  calls,      \* hook calls in flight, by slot
  drains,     \* flushMutationQueue calls in flight, by slot
  cache,      \* the idb-keyval snapshots, by key (tabi_days_<trip>, tabi_items_<day>)
  toast,      \* the last toast the flush effect showed
  last,       \* the hook call that returned last: its hook, branch and outcome
  result,     \* what the flushMutationQueue call that returned last returned
  failedIds,  \* ids of the mutations a drain has counted as failed so far
  ev,         \* what the last platform event did
  stored,     \* the idb-keyval keys that hold a value
  sweep,      \* keys a clearAllCache call in flight has still to delete
  callsLeft,  \* hook calls the run may still start
  eventsLeft, \* environment events the run may still take
  reads,      \* fetchTrips, fetchDays and fetchItems calls in flight, by list
  feed,       \* tables with a postgres_changes event not yet delivered
  members,    \* public.trip_members
  rpc,        \* the database function call made last, and what it returned
  api,        \* the request the edge function handled last, and its response
  tripRows,   \* public.trips as the triggers and database functions see it
  dayRows,    \* public.trip_days as the triggers and the edge function see it
  replies,    \* answers of the read hooks' selects on their way to the client, by list
  app         \* AppContent: selectedTripId, selectedTrip, the effect's fetches

\* the database functions and the edge function, which the client code above
\* never touches
serverVars == <<members, rpc, api, tripRows, dayRows>>

\* delayed answers and the App's selection, which the write hooks and the
\* offline library never touch
viewVars == <<replies, app>>

vars == <<online, listeners, queue, nextId, remote, trips, days, items,
          calls, drains, cache, toast, last, result, failedIds, ev, stored, sweep,
          callsLeft, eventsLeft, reads, feed, members, rpc, api, tripRows, dayRows,
          replies, app>>

\* ---------------------------------------------------------------- helpers
Ids(q) == [k \in 1..Len(q) |-> q[k].id]

IdSet(q) == {q[k].id : k \in 1..Len(q)}

IsPrefix(p, q) == Len(p) <= Len(q) /\ \A k \in 1..Len(p) : p[k] = q[k]

Max(S) == CHOOSE x \in S : \A y \in S : y <= x

\* { ...r, ...u }
Merge(r, u) == [f \in DOMAIN r \cup DOMAIN u |-> IF f \in DOMAIN u THEN u[f] ELSE r[f]]

\* const { id, ...updates } = payload
RestOf(payload) == [f \in DOMAIN payload \ {"id"} |-> payload[f]]

\* prev.map((x) => (x.id === id ? { ...x, ...updates } : x))
MapUpdate(list, id, updates) ==
  [k \in 1..Len(list) |-> IF list[k].id = id THEN Merge(list[k], updates) ELSE list[k]]

\* prev.filter((x) => x.id !== id)
FilterOut(list, id) == SelectSeq(list, LAMBDA x : x.id # id)

\* Array.prototype.sort with a numeric comparator on one field: stable
RECURSIVE InsertSorted(_, _, _)
InsertSorted(sorted, x, key) ==
  IF sorted = <<>> THEN <<x>>
  ELSE IF x[key] < Head(sorted)[key] THEN <<x>> \o sorted
  ELSE <<Head(sorted)>> \o InsertSorted(Tail(sorted), x, key)

RECURSIVE SortBy(_, _)
SortBy(list, key) ==
  IF list = <<>> THEN <<>>
  ELSE InsertSorted(SortBy(SubSeq(list, 1, Len(list) - 1), key), list[Len(list)], key)

\* ---------------------------------------------------------------- database
\* supabase.from(table).insert(payload): the row gets a generated id
RemoteInsert(db, table, payload) ==
  [db EXCEPT ![table] = Append(@, Merge(payload, [id |-> db.nextId])),
             !.nextId = @ + 1]

\* supabase.from(table).update(updates).eq('id', id)
RemoteUpdate(db, table, id, updates) ==
  [db EXCEPT ![table] = MapUpdate(@, id, updates)]

\* supabase.from(table).delete().eq('id', id)
RemoteDelete(db, table, id) ==
  [db EXCEPT ![table] = FilterOut(@, id)]

\* ---------------------------------------------------------------- change feed
\* the tables the mounted hooks have a postgres_changes channel on
Subscribed == {"trip_days", "itinerary_items"}

\* a write that changed rows of a subscribed table raises an event for it
Notify(f, db, db2) == f \cup {t \in Subscribed : db2[t] # db[t]}

\* ---------------------------------------------------------------- read hooks
ReadLists == {"trips", "days", "items"}

\* what get(key) resolves to when the key holds nothing: undefined
Absent == [present |-> FALSE, value |-> <<>>]

\* pc and got (what the call's cache read resolved to) of a read hook call
IdleRead == [pc |-> "idle", got |-> Absent]

NoReads == [l \in ReadLists |-> IdleRead]

\* no select has been answered without its answer having arrived
NoReplies == [l \in ReadLists |-> Absent]

\* ---------------------------------------------------------------- app state
\* useState<string | null>(null)
NoSelection == 0

\* useState<Trip | null>(null)
NoTrip == [id |-> NoSelection]

\* single-trip selects of the selected-trip effect that can await their answer
MaxTripFetches == 2

FetchSlots == 1..MaxTripFetches

\* no select issued; a select issued by a run of the effect for id carries the
\* `cancelled` variable of that run's closure
IdleFetch == [pc |-> "idle", id |-> NoSelection, cancelled |-> FALSE]

\* AppContent with nothing selected: deps is the trips value the selected-trip
\* effect ran with last, fetches the single-trip selects that have not been
\* answered, cleanup the select whose `cancelled` the cleanup function
\* returned by the effect's last run sets (0: that run issued no select or
\* its select has been answered); late is bookkeeping for the properties: the
\* last thing that happened is the answer, with a row, to a cancelled run
AppIdle(list) ==
  [selectedTripId |-> NoSelection, selectedTrip |-> NoTrip, deps |-> list,
   fetches |-> [s \in FetchSlots |-> IdleFetch], cleanup |-> 0, late |-> FALSE]

\* ---------------------------------------------------------------- queue store
\* variant of the push: the new entry goes to the front (unshift)
PushMutationFront(q, mutation, id) ==
  <<[id |-> id, type |-> mutation.type, table |-> mutation.table,
     payload |-> mutation.payload]>> \o q

\* queue.push({ ...mutation, id: crypto.randomUUID(), timestamp: Date.now() })
PushMutation(q, mutation, id) ==
  Append(q, [id |-> id, type |-> mutation.type, table |-> mutation.table,
             payload |-> mutation.payload])

\* variant of the filter: the first entry goes, whatever its id
RemoveFirst(q, id) == IF q = <<>> THEN q ELSE Tail(q)

\* queue.filter((m) => m.id !== id)
RemoveFrom(q, id) == SelectSeq(q, LAMBDA m : m.id # id)

\* ---------------------------------------------------------------- hook calls
\* mut, q, j are the call's locals; met (the kinds of other writes to the queue
\* that were issued or pending between queueMutation's get and its set:
\* "enqueue", "remove", "clear"), was (the lists as the hook found them) and
\* jerr (a per-item update of reorderItems returned an error) are bookkeeping
\* for the properties
IdleCall == [pc |-> "idle", op |-> "none", path |-> "none",
             mut |-> NoMutation, q |-> <<>>, j |-> 0, met |-> {}, was |-> <<>>,
             jerr |-> FALSE]

\* snap, i, j, q, flushed, failed are flushMutationQueue's locals; sent (ids in
\* dispatch order), back (ids whose operation has returned), oks (ids whose
\* operation succeeded), jerr (an update of the current reorder failed) and
\* clean (no other queue access since the call started) are bookkeeping for
\* the properties
IdleDrain == [pc |-> "idle", snap |-> <<>>, i |-> 0, j |-> 0, q |-> <<>>,
              flushed |-> 0, failed |-> 0,
              sent |-> <<>>, back |-> <<>>, oks |-> {}, jerr |-> FALSE,
              clean |-> TRUE]

InFlight(d) == drains[d].pc # "idle"

\* bookkeeping for the properties: a queue access of a hook call overlaps the
\* drains in flight; another drain or a clear also ends what a finished drain
\* can say about the queue it left
Disturb(ds) ==
  [d \in DrainSlots |-> IF ds[d].pc # "idle"
                        THEN [ds[d] EXCEPT !.clean = FALSE] ELSE ds[d]]

Running(c) == calls[c].pc # "idle"

\* bookkeeping for the properties: a write to the queue overlaps the queueMutation
\* calls that are between their get and their set
Overlap(cs, kind) ==
  [c \in CallSlots |->
    IF cs[c].pc = "qset" THEN [cs[c] EXCEPT !.met = @ \cup {kind}] ELSE cs[c]]

\* a call takes the lowest slot that holds no call in flight
FreeSlot(c) ==
  /\ ~Running(c)
  /\ \A b \in CallSlots : b < c => Running(b)
  /\ callsLeft > 0

\* ids still to be handed out to the calls that are about to push
CanEnqueue ==
  nextId + Cardinality({b \in CallSlots : calls[b].pc = "qset"}) < MaxMutations

Lists == [trips |-> trips, days |-> days, items |-> items]

\* bookkeeping for the properties: the kinds of writes to the queue that are
\* pending (their get or keys has been issued, their set or del has not)
PendingWrites ==
  (IF \E b \in CallSlots : calls[b].pc = "qset" THEN {"enqueue"} ELSE {})
    \cup (IF \E d \in DrainSlots : drains[d].pc = "rmset" THEN {"remove"} ELSE {})
    \cup (IF \E j \in 1..Len(sweep) : sweep[j] = QUEUE_KEY THEN {"clear"} ELSE {})

\* the branch every write hook starts with: if (!isOnline()) queue the mutation
\* (queueMutation issues its get), else issue the remote operation
Begin(c, op, mut) ==
  /\ online \/ CanEnqueue
  /\ callsLeft' = callsLeft - 1
  /\ calls' = IF ~online
              THEN [Overlap(calls, "enqueue") EXCEPT ![c] =
                     [pc |-> "qset", op |-> op, path |-> "offline", mut |-> mut,
                      q |-> queue, j |-> 0,
                      met |-> PendingWrites, was |-> Lists, jerr |-> FALSE]]
              ELSE [calls EXCEPT ![c] =
                     [pc |-> "remote", op |-> op, path |-> "online", mut |-> mut,
                      q |-> <<>>, j |-> 1, met |-> {}, was |-> Lists,
                      jerr |-> FALSE]]
  /\ drains' = IF ~online THEN Disturb(drains) ELSE drains
  /\ UNCHANGED <<serverVars, viewVars, reads, feed, stored, sweep, online, listeners, queue, nextId, remote, cache, toast, last, result,
                 failedIds, ev, eventsLeft>>

TripStarts == {0, 2}

createTrip(c) ==
  /\ FreeSlot(c)
  /\ \E start \in TripStarts :
       LET tripPayload == [name |-> 1, start_date |-> start] IN
       Begin(c, "createTrip",
             [type |-> "insert", table |-> "trips", payload |-> tripPayload])
  /\ UNCHANGED <<trips, days, items>>

updateTrip(c) ==
  /\ FreeSlot(c)
  /\ \E k \in 1..Len(trips) :
       Begin(c, "updateTrip",
             [type |-> "update", table |-> "trips",
              payload |-> [id |-> trips[k].id, name |-> 1]])
  /\ UNCHANGED <<trips, days, items>>

deleteTrip(c) ==
  /\ FreeSlot(c)
  /\ \E k \in 1..Len(trips) :
       Begin(c, "deleteTrip",
             [type |-> "delete", table |-> "trips", payload |-> [id |-> trips[k].id]])
  /\ UNCHANGED <<trips, days, items>>

updateDay(c) ==
  /\ FreeSlot(c)
  /\ \E k \in 1..Len(days) :
       Begin(c, "updateDay",
             [type |-> "update", table |-> "trip_days",
              payload |-> [id |-> days[k].id, title |-> 1]])
  /\ UNCHANGED <<trips, days, items>>

\* what the caller passes to addItem
NewItemInputs == {[title |-> 1], [title |-> 1, sort_order |-> 0]}

\* title of an item added without one ('New Item')
NewItemTitle == 2

NewItem(item) ==
  LET maxSort == IF Len(items) > 0
                 THEN Max({items[k].sort_order : k \in 1..Len(items)}) + 1 ELSE 0
  IN Merge([title |-> IF "title" \in DOMAIN item THEN item.title ELSE NewItemTitle,
            sort_order |-> IF "sort_order" \in DOMAIN item
                           THEN item.sort_order ELSE maxSort],
           item)

addItem(c) ==
  /\ FreeSlot(c)
  /\ \E item \in NewItemInputs :
       Begin(c, "addItem",
             [type |-> "insert", table |-> "itinerary_items", payload |-> NewItem(item)])
  /\ UNCHANGED <<trips, days, items>>

updateItem(c) ==
  /\ FreeSlot(c)
  /\ \E k \in 1..Len(items) :
       Begin(c, "updateItem",
             [type |-> "update", table |-> "itinerary_items",
              payload |-> [id |-> items[k].id, title |-> 1]])
  /\ UNCHANGED <<trips, days, items>>

deleteItem(c) ==
  /\ FreeSlot(c)
  /\ \E k \in 1..Len(items) :
       Begin(c, "deleteItem",
             [type |-> "delete", table |-> "itinerary_items",
              payload |-> [id |-> items[k].id]])
  /\ UNCHANGED <<trips, days, items>>

\* the list a drag leaves: item k moved to the front
MoveToFront(list, k) ==
  <<list[k]>> \o SubSeq(list, 1, k - 1) \o SubSeq(list, k + 1, Len(list))

\* reordered.map((item, index) => ({ id: item.id, sort_order: index }))
ReorderUpdates(reordered) ==
  [k \in 1..Len(reordered) |-> [id |-> reordered[k].id, sort_order |-> k - 1]]

\* reordered.map((item, index) => ({ ...item, sort_order: index }))
Renumbered(reordered) ==
  [k \in 1..Len(reordered) |-> [reordered[k] EXCEPT !.sort_order = k - 1]]

reorderItems(c) ==
  /\ FreeSlot(c)
  /\ \E k \in 2..Len(items) :
       LET reordered == MoveToFront(items, k) IN
       /\ items' = Renumbered(reordered)
       /\ Begin(c, "reorderItems",
                [type |-> "reorder", table |-> "itinerary_items",
                 payload |-> [items |-> ReorderUpdates(reordered)]])
  /\ UNCHANGED <<trips, days>>

NoCall == [op |-> "none", path |-> "none", res |-> "none"]

SetLists(l) == trips' = l.trips /\ days' = l.days /\ items' = l.items

\* the call in slot c returns (res "ok") or throws (res "threw")
Finish(c, res) ==
  /\ calls' = [calls EXCEPT ![c] = IdleCall]
  /\ last' = [op |-> calls[c].op, path |-> calls[c].path, res |-> res]

\* what each hook does to its state once `await queueMutation(...)` has returned
AfterQueued(op, p, l) ==
  CASE op = "updateTrip" -> [l EXCEPT !.trips = MapUpdate(@, p.id, RestOf(p))]
    [] op = "deleteTrip" -> [l EXCEPT !.trips = FilterOut(@, p.id)]
    [] op = "updateDay" -> [l EXCEPT !.days = MapUpdate(@, p.id, RestOf(p))]
    [] op = "updateItem" -> [l EXCEPT !.items = MapUpdate(@, p.id, RestOf(p))]
    [] op = "deleteItem" -> [l EXCEPT !.items = FilterOut(@, p.id)]
    [] OTHER -> l

\* what each hook does to its state once the remote operation has returned
\* without error (data: the row an insert ... select().single() returns)
AfterRemote(op, p, l, data) ==
  CASE op = "updateTrip" -> [l EXCEPT !.trips = MapUpdate(@, p.id, RestOf(p))]
    [] op = "deleteTrip" -> [l EXCEPT !.trips = FilterOut(@, p.id)]
    [] op = "updateDay" -> [l EXCEPT !.days = MapUpdate(@, p.id, RestOf(p))]
    [] op = "addItem" -> [l EXCEPT !.items = SortBy(Append(@, data), "sort_order")]
    [] op = "updateItem" -> [l EXCEPT !.items = MapUpdate(@, p.id, RestOf(p))]
    [] op = "deleteItem" -> [l EXCEPT !.items = FilterOut(@, p.id)]
    [] OTHER -> l

\* the remote operation a mutation stands for
ApplyRemote(db, m) ==
  CASE m.type = "insert" -> RemoteInsert(db, m.table, m.payload)
    [] m.type = "update" -> RemoteUpdate(db, m.table, m.payload.id, RestOf(m.payload))
    [] m.type = "delete" -> RemoteDelete(db, m.table, m.payload.id)
    [] OTHER -> db

\* queueMutation after its get: push, set, and the rest of the hook
queueMutation(c) ==
  LET rec == calls[c] IN
  /\ rec.pc = "qset"
  /\ nextId' = nextId + 1
  /\ queue' = PushMutation(rec.q, rec.mut, nextId + 1)
  /\ SetLists(AfterQueued(rec.op, rec.mut.payload, Lists))
  /\ Finish(c, "ok")
  /\ drains' = Disturb(drains)
  /\ stored' = stored \cup {QUEUE_KEY}
  /\ UNCHANGED <<serverVars, viewVars, reads, feed, sweep, online, listeners, remote, cache, toast, result, failedIds, ev,
                 callsLeft, eventsLeft>>

\* the set of queueMutation rejects: the hook throws
queueMutationFails(c) ==
  LET rec == calls[c] IN
  /\ rec.pc = "qset"
  /\ Finish(c, "threw")
  /\ UNCHANGED <<serverVars, viewVars, reads, feed, stored, sweep, online, listeners, queue, nextId, remote, trips, days, items, drains,
                 cache, toast, result, failedIds, ev, callsLeft, eventsLeft>>

\* the remote operation of an online write returns without error
hookRemoteOk(c) ==
  LET rec == calls[c] IN
  /\ rec.pc = "remote"
  /\ rec.op # "reorderItems"
  /\ remote' = ApplyRemote(remote, rec.mut)
  /\ IF rec.op = "createTrip"
     THEN /\ calls' = [calls EXCEPT ![c].pc = "fetch"]
          /\ UNCHANGED <<trips, days, items, last>>
     ELSE /\ Finish(c, "ok")
          /\ SetLists(AfterRemote(rec.op, rec.mut.payload, Lists,
                                  Merge(rec.mut.payload, [id |-> remote.nextId])))
  /\ feed' = Notify(feed, remote, remote')
  /\ UNCHANGED <<serverVars, viewVars, reads, stored, sweep, online, listeners, queue, nextId, drains, cache, toast, result,
                 failedIds, ev, callsLeft, eventsLeft>>

\* variant of the error branch: the returned error is not looked at
hookRemoteErrUnread(c) ==
  LET rec == calls[c] IN
  /\ rec.pc = "remote"
  /\ rec.op # "reorderItems"
  /\ Finish(c, "ok")
  /\ SetLists(AfterRemote(rec.op, rec.mut.payload, Lists,
                          Merge(rec.mut.payload, [id |-> remote.nextId])))
  /\ UNCHANGED <<serverVars, viewVars, reads, feed, stored, sweep, online, listeners, queue, nextId, remote, drains,
                 cache, toast, result, failedIds, ev, callsLeft, eventsLeft>>

\* the remote operation of an online write returns an error: throw error
hookRemoteErr(c) ==
  LET rec == calls[c] IN
  /\ rec.pc = "remote"
  /\ rec.op # "reorderItems"
  /\ Finish(c, "threw")
  /\ UNCHANGED <<serverVars, viewVars, reads, feed, stored, sweep, online, listeners, queue, nextId, remote, trips, days, items, drains,
                 cache, toast, result, failedIds, ev, callsLeft, eventsLeft>>

\* createTrip's await fetchTrips(): the select returns rows or an error
fetchTripsAfterCreate(c) ==
  LET rec == calls[c] IN
  /\ rec.pc = "fetch"
  /\ \E ok \in BOOLEAN :
       trips' = IF ok THEN SortBy(remote.trips, "start_date") ELSE trips
  /\ Finish(c, "ok")
  /\ UNCHANGED <<serverVars, viewVars, reads, feed, stored, sweep, online, listeners, queue, nextId, remote, days, items, drains, cache,
                 toast, result, failedIds, ev, callsLeft, eventsLeft>>

\* one turn of reorderItems' persist loop: the update's result is not read
reorderPersist(c) ==
  LET rec == calls[c]
      updates == rec.mut.payload.items
  IN
  /\ rec.pc = "remote"
  /\ rec.op = "reorderItems"
  /\ \E ok \in BOOLEAN :
       /\ remote' = IF ok
                    THEN RemoteUpdate(remote, "itinerary_items", updates[rec.j].id,
                                      [sort_order |-> updates[rec.j].sort_order])
                    ELSE remote
       /\ IF rec.j < Len(updates)
          THEN /\ calls' = [calls EXCEPT ![c].j = @ + 1, ![c].jerr = @ \/ ~ok]
               /\ UNCHANGED last
          ELSE Finish(c, "ok")
  /\ feed' = Notify(feed, remote, remote')
  /\ UNCHANGED <<serverVars, viewVars, reads, stored, sweep, online, listeners, queue, nextId, trips, days, items, drains, cache,
                 toast, result, failedIds, ev, callsLeft, eventsLeft>>

\* ---------------------------------------------------------------- cache store
\* get(key)
StoreGet(key) ==
  IF key \in stored THEN [present |-> TRUE, value |-> cache[key]] ELSE Absent

getCachedTripDays(trip) == StoreGet(DaysKey(trip))

getCachedItems(day) == StoreGet(ItemsKey(day))

\* set(key, value)
StoreSet(key, value) ==
  /\ cache' = [cache EXCEPT ![key] = value]
  /\ stored' = stored \cup {key}

\* snapshots a caller may hand to the cache
DaySnapshots == {<<>>, LoadedDays, <<[id |-> 1, title |-> 1]>>}

ItemSnapshots == {<<>>, LoadedItems, <<[id |-> 2, title |-> 1, sort_order |-> 0]>>}

\* await set(`${CACHE_PREFIX}days_${tripId}`, days)
cacheTripDays(trip, snapshot) ==
  /\ eventsLeft > 0
  /\ eventsLeft' = eventsLeft - 1
  /\ StoreSet(DaysKey(trip), snapshot)
  /\ UNCHANGED <<serverVars, viewVars, reads, feed, sweep, online, listeners, queue, nextId, remote,
                 trips, days, items, calls, drains, toast, last, result, failedIds, ev,
                 callsLeft>>

\* await set(`${CACHE_PREFIX}items_${dayId}`, items)
cacheItems(day, snapshot) ==
  /\ eventsLeft > 0
  /\ eventsLeft' = eventsLeft - 1
  /\ StoreSet(ItemsKey(day), snapshot)
  /\ UNCHANGED <<serverVars, viewVars, reads, feed, sweep, online, listeners, queue, nextId, remote,
                 trips, days, items, calls, drains, toast, last, result, failedIds, ev,
                 callsLeft>>

\* ---------------------------------------------------------------- read hooks
\* the rows each select returns: .order('start_date'), .order('date'),
\* .order('sort_order')
Fetched(list) ==
  CASE list = "trips" -> SortBy(remote.trips, "start_date")
    [] list = "days" -> remote.trip_days
    [] list = "items" -> SortBy(remote.itinerary_items, "sort_order")

\* a read hook call makes its step: its record becomes nxt, nothing else of the
\* calls in flight changes
ReadStep(list, nxt) == reads' = [reads EXCEPT ![list] = nxt]

\* fetchTrips: setLoading(true), setError(null), the select is issued
fetchTrips ==
  /\ reads.trips.pc = "idle"
  /\ eventsLeft > 0
  /\ eventsLeft' = eventsLeft - 1
  /\ ReadStep("trips", [pc |-> "fetch", got |-> Absent])
  /\ UNCHANGED <<serverVars, viewVars, feed, stored, sweep, online, listeners, queue, nextId, remote,
                 trips, days, items, calls, drains, cache, toast, last, result,
                 failedIds, ev, callsLeft>>

\* the select returns rows: if (data) setTrips(data)
fetchTripsOk ==
  /\ reads.trips.pc = "fetch"
  /\ online
  /\ trips' = Fetched("trips")
  /\ ReadStep("trips", IdleRead)
  /\ UNCHANGED <<serverVars, viewVars, feed, stored, sweep, online, listeners, queue, nextId, remote,
                 days, items, calls, drains, cache, toast, last, result,
                 failedIds, ev, callsLeft, eventsLeft>>

\* the select returns an error: setError(...), data is null
fetchTripsErr ==
  /\ reads.trips.pc = "fetch"
  /\ ReadStep("trips", IdleRead)
  /\ UNCHANGED <<serverVars, viewVars, feed, stored, sweep, online, listeners, queue, nextId, remote,
                 trips, days, items, calls, drains, cache, toast, last, result,
                 failedIds, ev, callsLeft, eventsLeft>>

\* fetchDays and fetchItems are the same code for two lists; each is called
\* with its list. The call starts: getCached...(id) issues its get
StartRead(list) ==
  ReadStep(list, [pc |-> "cache",
                  got |-> IF list = "days" THEN getCachedTripDays(tripId)
                          ELSE getCachedItems(dayId)])

\* the get has resolved: if (cached) setDays(cached) / setItems(cached), then
\* the select is issued
fetchCached(list) ==
  LET got == reads[list].got IN
  /\ reads[list].pc = "cache"
  /\ ReadStep(list, [pc |-> "fetch", got |-> got])
  /\ IF list = "days"
     THEN days' = (IF got.present THEN got.value ELSE days) /\ items' = items
     ELSE items' = (IF got.present THEN got.value ELSE items) /\ days' = days
  /\ UNCHANGED <<serverVars, viewVars, feed, stored, sweep, online, listeners, queue, nextId, remote,
                 trips, calls, drains, cache, toast, last, result,
                 failedIds, ev, callsLeft, eventsLeft>>

\* the select returns rows: setDays(data) / setItems(data) and the snapshot is
\* written (the rest of the call only sets loading)
fetchOk(list) ==
  LET data == Fetched(list) IN
  /\ reads[list].pc = "fetch"
  /\ online
  /\ ReadStep(list, IdleRead)
  /\ IF list = "days"
     THEN days' = data /\ items' = items /\ StoreSet(DaysKey(tripId), data)
     ELSE items' = data /\ days' = days /\ StoreSet(ItemsKey(dayId), data)
  /\ UNCHANGED <<serverVars, viewVars, feed, sweep, online, listeners, queue, nextId, remote,
                 trips, calls, drains, toast, last, result,
                 failedIds, ev, callsLeft, eventsLeft>>

\* the select returns an error: it is logged, data is null
fetchErr(list) ==
  /\ reads[list].pc = "fetch"
  /\ ReadStep(list, IdleRead)
  /\ UNCHANGED <<serverVars, viewVars, feed, stored, sweep, online, listeners, queue, nextId, remote,
                 trips, days, items, calls, drains, cache, toast, last, result,
                 failedIds, ev, callsLeft, eventsLeft>>

\* a mount or a refresh calls the hook (a call of one list at a time)
fetchList(list) ==
  /\ reads[list].pc = "idle"
  /\ eventsLeft > 0
  /\ eventsLeft' = eventsLeft - 1
  /\ StartRead(list)
  /\ UNCHANGED <<serverVars, viewVars, feed, stored, sweep, online, listeners, queue, nextId, remote,
                 trips, days, items, calls, drains, cache, toast, last, result,
                 failedIds, ev, callsLeft>>

\* the lists that fetchDays and fetchItems load
CachedLists == {"days", "items"}

\* the table and the list of each channel
FeedList == [trip_days |-> "days", itinerary_items |-> "items"]

\* a postgres_changes event is delivered: its callback calls fetchDays() or
\* fetchItems() (delivered when no call for that list is in flight)
realtime(table) ==
  /\ online
  /\ table \in feed
  /\ reads[FeedList[table]].pc = "idle"
  /\ feed' = feed \ {table}
  /\ StartRead(FeedList[table])
  /\ UNCHANGED <<serverVars, viewVars, stored, sweep, online, listeners, queue, nextId, remote,
                 trips, days, items, calls, drains, cache, toast, last, result,
                 failedIds, ev, callsLeft, eventsLeft>>

\* The database runs the select of the call in flight for a list and the answer
\* is on its way: the rows are those of that moment. The client has nothing
\* that waits for it, so the hook can be called again before it arrives.
selectRuns(list) ==
  /\ reads[list].pc = "fetch"
  /\ online
  /\ ~replies[list].present
  /\ replies' = [replies EXCEPT ![list] = [present |-> TRUE, value |-> Fetched(list)]]
  /\ ReadStep(list, IdleRead)
  /\ UNCHANGED <<serverVars, app, feed, stored, sweep, online, listeners, queue, nextId,
                 remote, trips, days, items, calls, drains, cache, toast, last, result,
                 failedIds, ev, callsLeft, eventsLeft>>

\* the answer arrives and the rest of the call runs: if (data) setTrips(data),
\* or setDays(data) / setItems(data) and the snapshot is written
replyArrives(list) ==
  LET data == replies[list].value IN
  /\ replies[list].present
  /\ replies' = [replies EXCEPT ![list] = Absent]
  /\ CASE list = "trips" ->
            trips' = data /\ UNCHANGED <<days, items, cache, stored>>
       [] list = "days" ->
            days' = data /\ StoreSet(DaysKey(tripId), data) /\ UNCHANGED <<trips, items>>
       [] list = "items" ->
            items' = data /\ StoreSet(ItemsKey(dayId), data) /\ UNCHANGED <<trips, days>>
  /\ UNCHANGED <<serverVars, app, reads, feed, sweep, online, listeners, queue, nextId,
                 remote, calls, drains, toast, last, result, failedIds, ev, callsLeft,
                 eventsLeft>>

\* ---------------------------------------------------------------- app
\* trips.find((t) => t.id === selectedTripId): the first match, or undefined
Find(list, id) ==
  IF \E k \in 1..Len(list) : list[k].id = id
  THEN list[CHOOSE k \in 1..Len(list) :
              list[k].id = id /\ \A j \in 1..(k - 1) : list[j].id # id]
  ELSE NoTrip

\* return () => { cancelled = true }: the cleanup of the effect's last run
Cleaned(a) ==
  IF a.cleanup = 0 THEN a.fetches
  ELSE [a.fetches EXCEPT ![a.cleanup].cancelled = TRUE]

\* the effect has a select to issue and a slot to issue it in, or none to issue
CanRun(a, id, list) ==
  \/ id = NoSelection
  \/ Find(list, id) # NoTrip
  \/ \E s \in FetchSlots : a.fetches[s].pc = "idle"

\* One run of the selected-trip effect with selectedTripId = id and
\* trips = list, after the cleanup of the run before it: setSelectedTrip(null)
\* and return without a cleanup; or setSelectedTrip(trip); or the select is
\* issued and selectedTrip stays
RunEffect(a, id, list) ==
  LET trip == Find(list, id)
      slot == CHOOSE s \in FetchSlots : Cleaned(a)[s].pc = "idle"
      base == [a EXCEPT !.selectedTripId = id, !.deps = list, !.fetches = Cleaned(a),
                        !.cleanup = 0, !.late = FALSE]
  IN
  IF id = NoSelection THEN [base EXCEPT !.selectedTrip = NoTrip]
  ELSE IF trip # NoTrip THEN [base EXCEPT !.selectedTrip = trip]
  ELSE [base EXCEPT !.fetches[slot] = [pc |-> "sent", id |-> id, cancelled |-> FALSE],
                    !.cleanup = slot]

\* setSelectedTripId(id): the component renders with the new state and the
\* effect runs, its dependencies having changed
setSelectedTripId(id) ==
  /\ id # app.selectedTripId
  /\ CanRun(app, id, trips)
  /\ app' = RunEffect(app, id, trips)
  /\ UNCHANGED <<serverVars, replies, reads, feed, stored, sweep, online, listeners, queue,
                 nextId, remote, trips, days, items, calls, drains, cache, toast, last,
                 result, failedIds, ev, callsLeft, eventsLeft>>

\* TripList is rendered (selectedTrip is null) and a trip of the list is
\* clicked: onSelectTrip(trip.id)
onSelectTrip(k) ==
  /\ app.selectedTrip = NoTrip
  /\ k \in 1..Len(trips)
  /\ setSelectedTripId(trips[k].id)

\* TripView is rendered (selectedTrip is not null) and its back button is
\* clicked: setSelectedTripId(null)
onBack ==
  /\ app.selectedTrip # NoTrip
  /\ setSelectedTripId(NoSelection)

\* trips has changed since the effect ran: the effect runs again
selectedTripEffect ==
  /\ app.deps # trips
  /\ CanRun(app, app.selectedTripId, trips)
  /\ app' = RunEffect(app, app.selectedTripId, trips)
  /\ UNCHANGED <<serverVars, replies, reads, feed, stored, sweep, online, listeners, queue,
                 nextId, remote, trips, days, items, calls, drains, cache, toast, last,
                 result, failedIds, ev, callsLeft, eventsLeft>>

\* variant of the callback's test: the cancelled flag is not looked at
AcceptsAnyRun(f, data) == data # NoTrip /\ data.id = f.id

\* if (!cancelled && data && data.id === selectedTripId), with the cancelled
\* and selectedTripId of the run that issued the select
Accepts(f, data) == ~f.cancelled /\ data # NoTrip /\ data.id = f.id

\* .from('trips').select('*').eq('id', selectedTripId).single() is answered:
\* the row with that id, or null when there is none or the select fails; the
\* callback runs
tripReply(s) ==
  LET f == app.fetches[s] IN
  /\ f.pc = "sent"
  /\ \E data \in {Find(remote.trips, f.id), NoTrip} :
       app' = [app EXCEPT !.fetches[s] = IdleFetch,
                          !.cleanup = IF @ = s THEN 0 ELSE @,
                          !.selectedTrip = IF Accepts(f, data) THEN data ELSE @,
                          !.late = f.cancelled /\ data # NoTrip]
  /\ UNCHANGED <<serverVars, replies, reads, feed, stored, sweep, online, listeners, queue,
                 nextId, remote, trips, days, items, calls, drains, cache, toast, last,
                 result, failedIds, ev, callsLeft, eventsLeft>>

\* ---------------------------------------------------------------- drain
NoResult == [flushed |-> 0, failed |-> 0]

NoToast == [flushed |-> 0, failed |-> 0, type |-> "none"]

\* the flush effect's callback after flushMutationQueue has returned
ToastFor(flushed, failed, old) ==
  IF flushed > 0
  THEN [flushed |-> flushed, failed |-> failed,
        type |-> IF failed > 0 THEN "error" ELSE "success"]
  ELSE old

\* variant of the loop's order: the mutations of one table together, trips first
DispatchOrderByTable(snap) ==
  SelectSeq(snap, LAMBDA m : m.table = "trips")
    \o SelectSeq(snap, LAMBDA m : m.table = "trip_days")
    \o SelectSeq(snap, LAMBDA m : m.table = "itinerary_items")

\* for (const mutation of queue)
DispatchOrder(snap) == snap

Current(rec) == DispatchOrder(rec.snap)[rec.i]

\* variant of the loop: it ends at the first failure
AdvanceUntilFailure(rec) ==
  IF rec.i < Len(rec.snap) /\ rec.failed = 0
  THEN [rec EXCEPT !.i = @ + 1, !.j = 1, !.q = <<>>, !.jerr = FALSE, !.pc = "remote",
                   !.sent = Append(@, DispatchOrder(rec.snap)[rec.i + 1].id)]
  ELSE [rec EXCEPT !.pc = "done"]

\* the loop moves on: the next mutation's operation is issued, or the call returns
Advance(rec) ==
  IF rec.i < Len(rec.snap)
  THEN [rec EXCEPT !.i = @ + 1, !.j = 1, !.q = <<>>, !.jerr = FALSE, !.pc = "remote",
                   !.sent = Append(@, DispatchOrder(rec.snap)[rec.i + 1].id)]
  ELSE [rec EXCEPT !.pc = "done"]

\* the drain in slot d moves to nxt; when it has returned, the effect's callback
\* runs on with its result
Step(d, nxt) ==
  IF nxt.pc = "done"
  THEN /\ drains' = [drains EXCEPT ![d] = IdleDrain]
       /\ result' = [flushed |-> nxt.flushed, failed |-> nxt.failed]
       /\ toast' = ToastFor(nxt.flushed, nxt.failed, toast)
  ELSE /\ drains' = [drains EXCEPT ![d] = nxt]
       /\ UNCHANGED <<result, toast>>

\* variant of the early return: the empty queue is reported as one failure
EmptyQueueReturnFailed(rec) == [rec EXCEPT !.pc = "done", !.flushed = 0, !.failed = 1]

\* return { flushed: 0, failed: 0 }
EmptyQueueReturn(rec) == [rec EXCEPT !.pc = "done", !.flushed = 0, !.failed = 0]

\* const queue = await getQueuedMutations(); if (queue.length === 0) return
flushBegin(d) ==
  LET rec == drains[d]
      nxt == IF Len(rec.snap) = 0
             THEN EmptyQueueReturn(rec)
             ELSE Advance(rec)
  IN
  /\ rec.pc = "read"
  /\ Step(d, nxt)
  /\ UNCHANGED <<serverVars, viewVars, reads, feed, stored, sweep, online, listeners, queue, nextId, remote, trips, days, items, calls,
                 cache, last, failedIds, ev, callsLeft, eventsLeft>>

\* an insert, update or delete returns without error; removeMutation issues its get
flushRemoteOk(d) ==
  LET rec == drains[d]
      m == Current(rec)
  IN
  /\ rec.pc = "remote"
  /\ m.type # "reorder"
  /\ remote' = ApplyRemote(remote, m)
  /\ drains' = [drains EXCEPT ![d] =
       [rec EXCEPT !.pc = "rmset", !.q = queue, !.oks = @ \cup {m.id},
                   !.back = Append(@, m.id)]]
  /\ feed' = Notify(feed, remote, remote')
  /\ UNCHANGED <<serverVars, viewVars, reads, stored, sweep, online, listeners, queue, nextId, trips, days, items, calls, cache,
                 toast, last, result, failedIds, ev, callsLeft, eventsLeft>>

\* an insert, update or delete returns an error: throw, catch, failed++
flushRemoteErr(d) ==
  LET rec == drains[d]
      m == Current(rec)
      nxt == Advance([rec EXCEPT !.failed = @ + 1, !.back = Append(@, m.id)])
  IN
  /\ rec.pc = "remote"
  /\ m.type # "reorder"
  /\ Step(d, nxt)
  /\ failedIds' = failedIds \cup {m.id}
  /\ UNCHANGED <<serverVars, viewVars, reads, feed, stored, sweep, online, listeners, queue, nextId, remote, trips, days, items, calls,
                 cache, last, ev, callsLeft, eventsLeft>>

\* one turn of the reorder case's loop: the update's result is not read; after
\* the last one removeMutation issues its get
flushReorderStep(d) ==
  LET rec == drains[d]
      m == Current(rec)
      its == m.payload.items
  IN
  /\ rec.pc = "remote"
  /\ m.type = "reorder"
  /\ \E ok \in BOOLEAN :
       /\ remote' = IF ok
                    THEN RemoteUpdate(remote, m.table, its[rec.j].id,
                                      [sort_order |-> its[rec.j].sort_order])
                    ELSE remote
       /\ drains' = [drains EXCEPT ![d] =
            IF rec.j < Len(its)
            THEN [rec EXCEPT !.j = @ + 1, !.jerr = @ \/ ~ok]
            ELSE [rec EXCEPT !.pc = "rmset", !.q = queue, !.jerr = @ \/ ~ok,
                             !.oks = IF rec.jerr \/ ~ok THEN @ ELSE @ \cup {m.id},
                             !.back = Append(@, m.id)]]
  /\ feed' = Notify(feed, remote, remote')
  /\ UNCHANGED <<serverVars, viewVars, reads, stored, sweep, online, listeners, queue, nextId, trips, days, items, calls, cache,
                 toast, last, result, failedIds, ev, callsLeft, eventsLeft>>

\* removeMutation's set, then flushed++
removeMutation(d) ==
  LET rec == drains[d]
      m == Current(rec)
      q2 == RemoveFrom(rec.q, m.id)
      nxt == Advance([rec EXCEPT !.flushed = @ + 1])
  IN
  /\ rec.pc = "rmset"
  /\ queue' = q2
  /\ stored' = stored \cup {QUEUE_KEY}
  /\ calls' = Overlap(calls, "remove")
  /\ Step(d, nxt)
  /\ UNCHANGED <<serverVars, viewVars, reads, feed, sweep, online, listeners, nextId, remote, trips, days, items, cache,
                 last, failedIds, ev, callsLeft, eventsLeft>>

\* removeMutation's set rejects: the throw lands in the loop's catch, failed++
removeMutationFails(d) ==
  LET rec == drains[d]
      nxt == Advance([rec EXCEPT !.failed = @ + 1])
  IN
  /\ rec.pc = "rmset"
  /\ Step(d, nxt)
  /\ failedIds' = failedIds \cup {Current(rec).id}
  /\ UNCHANGED <<serverVars, viewVars, reads, feed, stored, sweep, online, listeners, queue, nextId, remote, trips, days, items, calls,
                 cache, last, ev, callsLeft, eventsLeft>>

\* await del(QUEUE_KEY)
clearMutationQueue ==
  /\ eventsLeft > 0
  /\ eventsLeft' = eventsLeft - 1
  /\ queue # <<>>
  /\ queue' = <<>>
  /\ stored' = stored \ {QUEUE_KEY}
  /\ drains' = Disturb(drains)
  /\ calls' = Overlap(calls, "clear")
  /\ UNCHANGED <<serverVars, viewVars, reads, feed, sweep, online, listeners, nextId, remote, trips, days, items, cache,
                 toast, last, result, failedIds, ev, callsLeft>>

\* the store's keys in the order keys() lists them: tabi_days_<trip>,
\* tabi_items_<day>, tabi_mutation_queue
KeyOrder == <<DaysKey(1), DaysKey(2), ItemsKey(1), ItemsKey(2), QUEUE_KEY>>

\* key.startsWith(CACHE_PREFIX)
HasCachePrefix(k) == Head(k) = CACHE_PREFIX

\* clearAllCache: const allKeys = await keys()
clearAllCache ==
  /\ eventsLeft > 0
  /\ eventsLeft' = eventsLeft - 1
  /\ sweep = <<>>
  /\ stored # {}
  /\ sweep' = SelectSeq(KeyOrder, LAMBDA k : k \in stored /\ HasCachePrefix(k))
  /\ UNCHANGED <<serverVars, viewVars, reads, feed, stored, online, listeners, queue, nextId, remote, trips, days, items,
                 calls, drains, cache, toast, last, result, failedIds, ev, callsLeft>>

\* one turn of clearAllCache's loop: await del(key)
clearAllCacheDel ==
  LET k == Head(sweep) IN
  /\ sweep # <<>>
  /\ sweep' = Tail(sweep)
  /\ stored' = stored \ {k}
  /\ queue' = IF k = QUEUE_KEY THEN <<>> ELSE queue
  /\ cache' = IF k = QUEUE_KEY THEN cache ELSE [cache EXCEPT ![k] = <<>>]
  /\ drains' = IF k = QUEUE_KEY THEN Disturb(drains) ELSE drains
  /\ calls' = IF k = QUEUE_KEY THEN Overlap(calls, "clear") ELSE calls
  /\ UNCHANGED <<serverVars, viewVars, reads, feed, online, listeners, nextId, remote, trips, days, items, toast, last,
                 result, failedIds, ev, callsLeft, eventsLeft>>

\* ---------------------------------------------------------------- connectivity
\* window.addEventListener('online', handleOnline); ...('offline', handleOffline)
Subscribe(n) == n + 1

\* variant of the cleanup: the handlers stay registered
UnsubscribeNone(n) == n

\* the function onConnectivityChange returns: removeEventListener for both
Unsubscribe(n) == n - 1

\* handleOnline = () => callback(true)
HandleOnline == TRUE

\* handleOffline = () => callback(false)
HandleOffline == FALSE

\* variant of the flush effect's callback: no flush while a drain is in flight
StartsFlushIdle(arg) == arg /\ \A d \in DrainSlots : drains[d].pc = "idle"

\* the flush effect's callback: if (online) flushMutationQueue(...)
StartsFlush(arg) == arg

NoEvent == [kind |-> "none", calls |-> <<>>, started |-> 0]

\* the slots the drains started by one event take: the lowest free ones
RECURSIVE Lowest(_, _)
Lowest(S, n) ==
  IF n = 0 \/ S = {} THEN {}
  ELSE LET m == CHOOSE x \in S : \A y \in S : x <= y
       IN {m} \cup Lowest(S \ {m}, n - 1)

\* the platform fires kind; every registered handler calls the callback, and
\* each call with true starts flushMutationQueue (getQueuedMutations issues its get)
Dispatch(kind, arg) ==
  LET cbs == [k \in 1..listeners |-> arg]
      n == Cardinality({k \in 1..listeners : StartsFlush(cbs[k])})
      free == {d \in DrainSlots : ~InFlight(d)}
      slots == Lowest(free, n)
      quiet == /\ n = 1
               /\ \A d \in DrainSlots : ~InFlight(d)
               /\ \A c \in CallSlots : calls[c].pc # "qset"
  IN
  /\ Cardinality(free) >= n
  /\ ev' = [kind |-> kind, calls |-> cbs, started |-> n]
  /\ drains' = IF n = 0 THEN drains
               ELSE [d \in DrainSlots |->
                      IF d \in slots
                      THEN [IdleDrain EXCEPT !.pc = "read", !.snap = queue,
                                             !.clean = quiet]
                      ELSE Disturb(drains)[d]]

OnlineEvent ==
  /\ ~online
  /\ eventsLeft > 0
  /\ eventsLeft' = eventsLeft - 1
  /\ online' = TRUE
  /\ Dispatch("online", HandleOnline)
  /\ UNCHANGED <<serverVars, viewVars, reads, feed, stored, sweep, listeners, queue, nextId, remote, trips, days, items, calls, cache,
                 toast, last, result, failedIds, callsLeft>>

OfflineEvent ==
  /\ online
  /\ eventsLeft > 0
  /\ eventsLeft' = eventsLeft - 1
  /\ online' = FALSE
  /\ Dispatch("offline", HandleOffline)
  /\ UNCHANGED <<serverVars, viewVars, reads, feed, stored, sweep, listeners, queue, nextId, remote, trips, days, items, calls, cache,
                 toast, last, result, failedIds, callsLeft>>

\* the flush effect is torn down and set up again: its cleanup, then its body
EffectRerun ==
  /\ eventsLeft > 0
  /\ eventsLeft' = eventsLeft - 1
  /\ listeners' = Subscribe(Unsubscribe(listeners))
  /\ UNCHANGED <<serverVars, viewVars, reads, feed, stored, sweep, online, queue, nextId, remote, trips, days, items, calls, drains,
                 cache, toast, last, result, failedIds, ev, callsLeft>>

\* the page is closed and opened again: what is in flight is gone, the stores
\* stay, the effect subscribes once and the lists are loaded anew (from the
\* database when it answers, else from the cached snapshots)
Restart ==
  /\ eventsLeft > 0
  /\ eventsLeft' = eventsLeft - 1
  /\ listeners' = Subscribe(0)
  /\ calls' = [c \in CallSlots |-> IdleCall]
  /\ drains' = [d \in DrainSlots |-> IdleDrain]
  /\ toast' = NoToast
  /\ last' = NoCall
  /\ result' = NoResult
  /\ sweep' = <<>>
  /\ IF online
     THEN /\ trips' = SortBy(remote.trips, "start_date")
          /\ days' = remote.trip_days
          /\ items' = SortBy(remote.itinerary_items, "sort_order")
          /\ cache' = [cache EXCEPT ![DaysKey(tripId)] = days',
                                    ![ItemsKey(dayId)] = items']
          /\ stored' = stored \cup {DaysKey(tripId), ItemsKey(dayId)}
     ELSE /\ trips' = <<>>
          /\ days' = IF DaysKey(tripId) \in stored THEN cache[DaysKey(tripId)] ELSE <<>>
          /\ items' = IF ItemsKey(dayId) \in stored THEN cache[ItemsKey(dayId)] ELSE <<>>
          /\ UNCHANGED <<cache, stored>>
  /\ reads' = NoReads
  /\ feed' = {}
  /\ replies' = NoReplies
  /\ app' = AppIdle(trips')
  /\ UNCHANGED <<serverVars, online, queue, nextId, remote, failedIds, ev, callsLeft>>

\* ---------------------------------------------------------------- sharing
\* no database function has been called yet
NoRpc == [fn |-> "none"]

\* no request has been handled yet
NoRequest == [method |-> "none"]

\* the hooks' and the offline library's variables, which the database
\* functions and the edge function never touch
clientVars == <<online, listeners, queue, nextId, remote, trips, days, items,
                calls, drains, cache, toast, last, result, failedIds, ev, stored,
                sweep, callsLeft, eventsLeft, reads, feed, replies, app>>

\* SQL NULL, also what auth.uid() is for a caller that is not signed in
Null == "null"

Users == {"u1", "u2", "u3"}

SharedTrips == {1, 2}

\* the user that created each trip
Creator == [t \in SharedTrips |-> IF t = 1 THEN "u1" ELSE "u2"]

\* SELECT role INTO v FROM trip_members WHERE trip_id = t AND user_id = u:
\* v stays NULL when no row matches (none does when u is NULL)
RoleOf(m, t, u) ==
  IF \E r \in m : r.trip_id = t /\ r.user_id = u
  THEN (CHOOSE r \in m : r.trip_id = t /\ r.user_id = u).role
  ELSE Null

\* SQL's three truth values
SqlTrue == "true"
SqlFalse == "false"

\* a != b
SqlNeq(a, b) ==
  IF a = Null \/ b = Null THEN Null ELSE IF a # b THEN SqlTrue ELSE SqlFalse

\* a = b
SqlEq(a, b) ==
  IF a = Null \/ b = Null THEN Null ELSE IF a = b THEN SqlTrue ELSE SqlFalse

\* p AND q
SqlAnd(p, q) ==
  IF p = SqlFalse \/ q = SqlFalse THEN SqlFalse
  ELSE IF p = Null \/ q = Null THEN Null ELSE SqlTrue

\* IF p THEN ...: the branch is taken when p is true, not when it is NULL
Taken(p) == p = SqlTrue

\* a row of public.trips: its id, created_by and dates (days since some day)
NewTrip(id, created_by, start_date, end_date) ==
  [id |-> id, created_by |-> created_by, start_date |-> start_date,
   end_date |-> end_date]

\* handle_new_trip: the owner row of a new trip
OwnerRow(new) == [trip_id |-> new.id, user_id |-> new.created_by, role |-> "owner"]

\* generate_trip_days: one row for each date from start_date to end_date, with
\* sort_order counted from 0
GeneratedDays(new) ==
  {[trip_id |-> new.id, date |-> d, sort_order |-> d - new.start_date] :
     d \in new.start_date..new.end_date}

\* supabase.from('trips').insert(tripPayload) by the signed-in user uid, with
\* the id the uuid default generates; the two after-insert triggers run in the
\* same statement
insert_trip(uid, id, start_date, end_date) ==
  LET new == NewTrip(id, uid, start_date, end_date) IN
  /\ \A r \in tripRows : r.id # id
  /\ tripRows' = tripRows \cup {new}
  /\ members' = members \cup {OwnerRow(new)}
  /\ dayRows' = dayRows \cup GeneratedDays(new)
  /\ rpc' = [fn |-> "insert_trip", uid |-> uid, p_trip_id |-> id, res |-> "ok"]
  /\ UNCHANGED <<clientVars, api>>

\* supabase.from('trips').update(updates).eq('id', tripId) with the dates the
\* edit form sends; only the updated_at trigger runs on an update
update_trip(id, start_date, end_date) ==
  /\ \E r \in tripRows : r.id = id
  /\ tripRows' = {IF r.id = id
                  THEN [r EXCEPT !.start_date = start_date, !.end_date = end_date]
                  ELSE r : r \in tripRows}
  /\ rpc' = [fn |-> "update_trip", uid |-> Null, p_trip_id |-> id, res |-> "ok"]
  /\ UNCHANGED <<clientVars, api, members, dayRows>>

\* .from("trip_days").select("*").eq("trip_id", tripId).eq("date", date).single():
\* the row, or an error when no row or more than one matches
getDayByDate(rows, p_trip_id, date) ==
  LET hit == {d \in rows : d.trip_id = p_trip_id /\ d.date = date} IN
  IF Cardinality(hit) = 1
  THEN [found |-> TRUE, day |-> CHOOSE d \in hit : TRUE]
  ELSE [found |-> FALSE]

\* getDayByNumber: the trip's start_date plus dayNumber - 1, then getDayByDate
getDayByNumber(tripTable, rows, p_trip_id, dayNumber) ==
  IF \A r \in tripTable : r.id # p_trip_id THEN [found |-> FALSE]
  ELSE LET trip == CHOOSE r \in tripTable : r.id = p_trip_id IN
       getDayByDate(rows, p_trip_id, trip.start_date + dayNumber - 1)

\* SELECT id INTO v_user_id FROM auth.users WHERE email = lower(trim(p_email)):
\* an account's address is its user id followed by the domain
Emails == {<<"u1", "@x">>, <<"u2", "@x">>, <<"u4", "@x">>}

UserOfEmail(p_email) == IF Head(p_email) \in Users THEN Head(p_email) ELSE Null

\* p_role NOT IN ('editor', 'viewer')
SqlNotIn(a, S) == IF a = Null THEN Null ELSE IF a \notin S THEN SqlTrue ELSE SqlFalse

\* variant of invite_trip_member: the role is not validated
InviteResultAnyRole(m, uid, p_trip_id, p_email, p_role) ==
  LET v_caller_role == RoleOf(m, p_trip_id, uid)
      v_user_id == UserOfEmail(p_email)
  IN
  IF v_caller_role = Null \/ Taken(SqlNeq(v_caller_role, "owner"))
  THEN "Only trip owners can invite members"
  ELSE IF v_user_id = Null THEN "No account found"
  ELSE IF Taken(SqlEq(v_user_id, uid)) THEN "You are already the owner"
  ELSE IF \E r \in m : r.trip_id = p_trip_id /\ r.user_id = v_user_id
       THEN "Already a trip member"
  ELSE IF p_role = Null THEN "raised"
  ELSE "ok"

\* what invite_trip_member(p_trip_id, p_email, p_role) returns for the caller
\* uid ("raised": the INSERT violates role's NOT NULL and the call fails)
InviteResult(m, uid, p_trip_id, p_email, p_role) ==
  LET v_caller_role == RoleOf(m, p_trip_id, uid)
      v_user_id == UserOfEmail(p_email)
  IN
  IF Taken(SqlNotIn(p_role, {"editor", "viewer"})) THEN "Role must be editor or viewer"
  ELSE IF v_caller_role = Null \/ Taken(SqlNeq(v_caller_role, "owner"))
       THEN "Only trip owners can invite members"
  ELSE IF v_user_id = Null THEN "No account found"
  ELSE IF Taken(SqlEq(v_user_id, uid)) THEN "You are already the owner"
  ELSE IF \E r \in m : r.trip_id = p_trip_id /\ r.user_id = v_user_id
       THEN "Already a trip member"
  ELSE IF p_role = Null THEN "raised"
  ELSE "ok"

\* the roles a caller may pass
InviteRoles == {"editor", "viewer", "owner", Null}

invite_trip_member(uid, p_trip_id, p_email, p_role) ==
  LET res == InviteResult(members, uid, p_trip_id, p_email, p_role) IN
  /\ rpc' = [fn |-> "invite_trip_member", uid |-> uid, p_trip_id |-> p_trip_id,
             res |-> res]
  /\ members' = IF res = "ok"
                THEN members \cup {[trip_id |-> p_trip_id,
                                     user_id |-> UserOfEmail(p_email),
                                     role |-> p_role]}
                ELSE members
  /\ UNCHANGED <<clientVars, api, tripRows, dayRows>>

\* what remove_trip_member(p_trip_id, p_user_id) returns for the caller uid
RemoveResult(m, uid, p_trip_id, p_user_id) ==
  LET v_caller_role == RoleOf(m, p_trip_id, uid)
      v_target_role == RoleOf(m, p_trip_id, p_user_id)
  IN
  IF v_target_role = Null THEN "Member not found"
  ELSE IF Taken(SqlEq(v_target_role, "owner")) THEN "Cannot remove the trip owner"
  ELSE IF Taken(SqlAnd(SqlNeq(v_caller_role, "owner"), SqlNeq(uid, p_user_id)))
       THEN "Only owners can remove other members"
  ELSE "ok"

\* DELETE FROM trip_members WHERE trip_id = ... AND user_id = ...
DeleteMember(m, p_trip_id, p_user_id) ==
  {r \in m : ~(r.trip_id = p_trip_id /\ r.user_id = p_user_id)}

remove_trip_member(uid, p_trip_id, p_user_id) ==
  LET res == RemoveResult(members, uid, p_trip_id, p_user_id) IN
  /\ rpc' = [fn |-> "remove_trip_member", uid |-> uid, p_trip_id |-> p_trip_id,
             p_user_id |-> p_user_id, res |-> res]
  /\ members' = IF res = "ok" THEN DeleteMember(members, p_trip_id, p_user_id)
                ELSE members
  /\ UNCHANGED <<clientVars, api, tripRows, dayRows>>

\* ---------------------------------------------------------------- edge function
\* A header value or a key is the sequence of its pieces: words and runs of
\* white space.
Lower(piece) == IF piece \in {"Bearer", "bearer", "BEARER"} THEN "bearer" ELSE piece

IsSpace(piece) == piece \in {" ", "\t"}

RECURSIVE DropSpaces(_)
DropSpaces(h) == IF h # <<>> /\ IsSpace(Head(h)) THEN DropSpaces(Tail(h)) ELSE h

\* header.replace(/^Bearer\s+/i, "")
StripBearer(h) ==
  IF Len(h) >= 2 /\ Lower(h[1]) = "bearer" /\ IsSpace(h[2])
  THEN DropSpaces(Tail(h)) ELSE h

\* variant of authenticate: an unset or empty key is not looked for
authenticateAnyKey(header, apiKey) == StripBearer(header) = apiKey

\* authenticate(req), with the request's authorization header ("" when it has
\* none) and TABI_API_KEY (<<>> when unset or empty)
authenticate(header, apiKey) ==
  IF apiKey = <<>> THEN FALSE ELSE StripBearer(header) = apiKey

\* the routes in the order the handler tries them; ":" is a parameter
Routes ==
  << [method |-> "GET", pattern |-> <<"api", "trips">>, name |-> "getTrips"],
     [method |-> "GET", pattern |-> <<"api", "trips", ":", "overview">>,
      name |-> "getOverview"],
     [method |-> "GET", pattern |-> <<"api", "trips", ":", "days", ":">>,
      name |-> "getDay"],
     [method |-> "GET", pattern |-> <<"api", "trips", ":", "days">>, name |-> "getDays"],
     [method |-> "POST", pattern |-> <<"api", "trips", ":", "items">>,
      name |-> "addItem"],
     [method |-> "GET", pattern |-> <<"api", "trips", ":", "search">>,
      name |-> "search"],
     [method |-> "PATCH", pattern |-> <<"api", "trips", ":", "days", ":">>,
      name |-> "updateDay"],
     [method |-> "PATCH", pattern |-> <<"api", "items", "reorder">>,
      name |-> "reorderItems"],
     [method |-> "PATCH", pattern |-> <<"api", "items", ":">>, name |-> "updateItem"],
     [method |-> "DELETE", pattern |-> <<"api", "items", ":">>, name |-> "deleteItem"],
     [method |-> "POST", pattern |-> <<"api", "items", ":", "move">>,
      name |-> "moveItem"] >>

\* matchRoute(method, path, expectedMethod, pattern) is not null
matchRoute(method, path, expectedMethod, pattern) ==
  /\ method = expectedMethod
  /\ Len(pattern) = Len(path)
  /\ \A i \in 1..Len(pattern) : pattern[i] = ":" \/ pattern[i] = path[i]

\* fullPath.slice(fullPath.indexOf("/api")), the whole path when there is none
ApiPath(fullPath) ==
  IF \E i \in 1..Len(fullPath) : fullPath[i] = "api"
  THEN SubSeq(fullPath, CHOOSE i \in 1..Len(fullPath) :
                          /\ fullPath[i] = "api"
                          /\ \A j \in 1..(i - 1) : fullPath[j] # "api",
              Len(fullPath))
  ELSE fullPath

\* the first route that matches, 0 when none does
FirstMatch(method, path) ==
  IF \E k \in 1..Len(Routes) : matchRoute(method, path, Routes[k].method, Routes[k].pattern)
  THEN CHOOSE k \in 1..Len(Routes) :
         /\ matchRoute(method, path, Routes[k].method, Routes[k].pattern)
         /\ \A j \in 1..(k - 1) :
              ~matchRoute(method, path, Routes[j].method, Routes[j].pattern)
  ELSE 0

\* what a route handler can answer, and which kinds of database access it has
\* made by then: every handler queries through the service-role client, the
\* writing ones after a validation of the body and reads, and answers 200 or
\* 201, or 400, 404 or 500 ({ok: false})
HandlerOutcomes(route) ==
  LET writes == route.method # "GET"
      accesses == IF writes THEN {{}, {"read"}, {"write"}, {"read", "write"}}
                  ELSE {{"read"}, {}}
  IN
  {[status |-> st, ok |-> st \in {200, 201}, db |-> db] :
     st \in {200, 201, 400, 404, 500}, db \in accesses}

\* the Deno.serve handler
Respond(req, apiKey) ==
  IF req.method = "OPTIONS" THEN {[status |-> 204, ok |-> TRUE, db |-> {}]}
  ELSE IF ~authenticate(req.header, apiKey)
       THEN {[status |-> 401, ok |-> FALSE, db |-> {}]}
  ELSE LET k == FirstMatch(req.method, ApiPath(req.path)) IN
       IF k = 0 THEN {[status |-> 404, ok |-> FALSE, db |-> {}]}
       ELSE HandlerOutcomes(Routes[k])

\* requests and keys of a run
Methods == {"OPTIONS", "GET", "POST", "PATCH", "DELETE", "PUT"}

Paths ==
  { <<"functions", "v1", "api", "trips">>,
    <<"functions", "v1", "api", "trips", "t1", "overview">>,
    <<"functions", "v1", "api", "trips", "t1", "days", "2">>,
    <<"functions", "v1", "api", "trips", "t1", "days">>,
    <<"functions", "v1", "api", "trips", "t1", "items">>,
    <<"functions", "v1", "api", "trips", "t1", "search">>,
    <<"functions", "v1", "api", "items", "reorder">>,
    <<"functions", "v1", "api", "items", "i1">>,
    <<"functions", "v1", "api", "items", "i1", "move">>,
    <<"functions", "v1", "api", "members">>,
    <<"functions", "v1", "api">>,
    <<"trips">> }

Keys == {<<>>, <<"k1">>, <<"Bearer", " ", "k1">>}

Headers ==
  { <<>>, <<"k1">>, <<"k2">>,
    <<"Bearer", " ", "k1">>, <<"bearer", " ", "k1">>, <<"BEARER", "\t", " ", "k1">>,
    <<"Bearer", "k1">>, <<"Bearer", " ", "k2">>, <<"Basic", " ", "k1">>,
    <<"Bearer", " ", "k1", " ", "k2">>, <<"Bearer", " ", "Bearer", " ", "k1">> }

\* one request is handled (the handler keeps nothing from one request to the
\* next: a run is one request)
serve ==
  /\ api = NoRequest
  /\ \E method \in Methods, path \in Paths, header \in Headers, apiKey \in Keys :
       LET req == [method |-> method, path |-> path, header |-> header] IN
       \E res \in Respond(req, apiKey) :
         api' = [method |-> method, path |-> path, header |-> header,
                 apiKey |-> apiKey, res |-> res]
  /\ UNCHANGED <<clientVars, members, rpc, tripRows, dayRows>>

\* ---------------------------------------------------------------- server side
\* no database function has been called and no request handled
ServerIdle ==
  /\ members = {}
  /\ rpc = NoRpc
  /\ api = NoRequest
  /\ tripRows = {}
  /\ dayRows = {}

\* ---------------------------------------------------------------- specification
\* a session that starts with an empty queue, the lists loaded and cached, and
\* room for nc hook calls and ne environment events
Fresh(nc, ne) ==
  /\ listeners = Subscribe(0)
  /\ queue = <<>>
  /\ nextId = 0
  /\ remote = [trips |-> LoadedTrips, trip_days |-> LoadedDays,
               itinerary_items |-> LoadedItems, nextId |-> FirstServerId]
  /\ trips = LoadedTrips
  /\ days = LoadedDays
  /\ items = LoadedItems
  /\ calls = [c \in CallSlots |-> IdleCall]
  /\ drains = [d \in DrainSlots |-> IdleDrain]
  /\ cache = LoadedCache
  /\ toast = NoToast
  /\ last = NoCall
  /\ result = NoResult
  /\ failedIds = {}
  /\ ev = NoEvent
  /\ stored = {DaysKey(tripId), ItemsKey(dayId)}
  /\ sweep = <<>>
  /\ callsLeft = nc
  /\ eventsLeft = ne
  /\ reads = NoReads
  /\ feed = {}
  /\ replies = NoReplies
  /\ app = AppIdle(trips)
  /\ ServerIdle

Init ==
  /\ online \in BOOLEAN
  /\ Fresh(MaxCalls, MaxEvents)

Next ==
  \/ \E c \in CallSlots : createTrip(c)
  \/ \E c \in CallSlots : updateTrip(c)
  \/ \E c \in CallSlots : deleteTrip(c)
  \/ \E c \in CallSlots : updateDay(c)
  \/ \E c \in CallSlots : addItem(c)
  \/ \E c \in CallSlots : updateItem(c)
  \/ \E c \in CallSlots : deleteItem(c)
  \/ \E c \in CallSlots : reorderItems(c)
  \/ \E c \in CallSlots : queueMutation(c)
  \/ \E c \in CallSlots : hookRemoteOk(c)
  \/ \E c \in CallSlots : hookRemoteErr(c)
  \/ \E c \in CallSlots : fetchTripsAfterCreate(c)
  \/ \E c \in CallSlots : reorderPersist(c)
  \/ \E d \in DrainSlots : flushBegin(d)
  \/ \E d \in DrainSlots : flushRemoteOk(d)
  \/ \E d \in DrainSlots : flushRemoteErr(d)
  \/ \E d \in DrainSlots : flushReorderStep(d)
  \/ \E d \in DrainSlots : removeMutation(d)
  \/ \E c \in CallSlots : queueMutationFails(c)
  \/ \E d \in DrainSlots : removeMutationFails(d)
  \/ clearMutationQueue
  \/ clearAllCache
  \/ clearAllCacheDel
  \/ OnlineEvent
  \/ OfflineEvent
  \/ EffectRerun
  \/ Restart

Spec == Init /\ [][Next]_vars

\* ---------------------------------------------------------------- reconnect
\* Queues that offline edits of an earlier session left in the store: the edit
\* of item 1 followed by its deletion, edits of several tables, a reorder.
SeedMutations ==
  [insTrip |-> [type |-> "insert", table |-> "trips",
                payload |-> [name |-> 1, start_date |-> 0]],
   updDay |-> [type |-> "update", table |-> "trip_days",
               payload |-> [id |-> 1, title |-> 1]],
   updItem |-> [type |-> "update", table |-> "itinerary_items",
                payload |-> [id |-> 1, title |-> 1]],
   delItem |-> [type |-> "delete", table |-> "itinerary_items",
                payload |-> [id |-> 1]],
   reorder |-> [type |-> "reorder", table |-> "itinerary_items",
                payload |-> [items |-> ReorderUpdates(MoveToFront(LoadedItems, 2))]]]

SeedOrders ==
  { <<>>,
    <<"updItem">>,
    <<"updItem", "delItem">>,
    <<"updItem", "insTrip", "delItem">>,
    <<"insTrip", "updDay", "updItem">>,
    <<"reorder", "updDay">> }

\* the queue successive queueMutation calls build from an order of edits
RECURSIVE Enqueued(_)
Enqueued(order) ==
  IF order = <<>> THEN <<>>
  ELSE PushMutation(Enqueued(SubSeq(order, 1, Len(order) - 1)),
                    SeedMutations[order[Len(order)]], Len(order))

\* environment events of a run that starts with a seeded queue
MaxSyncEvents == 3

InitSync ==
  /\ online = FALSE
  /\ listeners = Subscribe(0)
  /\ \E order \in SeedOrders : queue = Enqueued(order)
  /\ nextId = Len(queue)
  /\ remote = [trips |-> LoadedTrips, trip_days |-> LoadedDays,
               itinerary_items |-> LoadedItems, nextId |-> FirstServerId]
  /\ trips = <<>>
  /\ days = LoadedDays
  /\ items = LoadedItems
  /\ calls = [c \in CallSlots |-> IdleCall]
  /\ drains = [d \in DrainSlots |-> IdleDrain]
  /\ cache = LoadedCache
  /\ toast = NoToast
  /\ last = NoCall
  /\ result = NoResult
  /\ failedIds = {}
  /\ ev = NoEvent
  /\ stored = {DaysKey(tripId), ItemsKey(dayId), QUEUE_KEY}
  /\ sweep = <<>>
  /\ callsLeft = 0
  /\ eventsLeft = MaxSyncEvents
  /\ reads = NoReads
  /\ feed = {}
  /\ replies = NoReplies
  /\ app = AppIdle(trips)
  /\ ServerIdle

\* reconnects and the drains they start, clears, re-subscriptions and restarts;
\* no edit is made meanwhile
NextSync ==
  \/ \E d \in DrainSlots : flushBegin(d)
  \/ \E d \in DrainSlots : flushRemoteOk(d)
  \/ \E d \in DrainSlots : flushRemoteErr(d)
  \/ \E d \in DrainSlots : flushReorderStep(d)
  \/ \E d \in DrainSlots : removeMutation(d)
  \/ \E d \in DrainSlots : removeMutationFails(d)
  \/ clearMutationQueue
  \/ clearAllCache
  \/ clearAllCacheDel
  \/ OnlineEvent
  \/ OfflineEvent
  \/ EffectRerun
  \/ Restart

SpecSync == InitSync /\ [][NextSync]_vars

\* ---------------------------------------------------------------- offline edits
\* hook calls and clears of a session that stays offline
MaxOfflineCalls == 2
MaxOfflineEvents == 1

InitOffline ==
  /\ online = FALSE
  /\ Fresh(MaxOfflineCalls, MaxOfflineEvents)

\* the write hooks with navigator.onLine false, the queue store accepting or
\* rejecting the write, and clears
NextOffline ==
  \/ \E c \in CallSlots : createTrip(c)
  \/ \E c \in CallSlots : updateTrip(c)
  \/ \E c \in CallSlots : deleteTrip(c)
  \/ \E c \in CallSlots : updateDay(c)
  \/ \E c \in CallSlots : addItem(c)
  \/ \E c \in CallSlots : updateItem(c)
  \/ \E c \in CallSlots : deleteItem(c)
  \/ \E c \in CallSlots : reorderItems(c)
  \/ \E c \in CallSlots : queueMutation(c)
  \/ \E c \in CallSlots : queueMutationFails(c)
  \/ clearMutationQueue
  \/ clearAllCache
  \/ clearAllCacheDel

SpecOffline == InitOffline /\ [][NextOffline]_vars

\* ---------------------------------------------------------------- online edits
\* hook calls of a session that stays online
MaxOnlineCalls == 2

InitOnline ==
  /\ online = TRUE
  /\ Fresh(MaxOnlineCalls, 0)

\* the write hooks with navigator.onLine true, the database answering each
\* operation with success or with an error
NextOnline ==
  \/ \E c \in CallSlots : createTrip(c)
  \/ \E c \in CallSlots : updateTrip(c)
  \/ \E c \in CallSlots : deleteTrip(c)
  \/ \E c \in CallSlots : updateDay(c)
  \/ \E c \in CallSlots : addItem(c)
  \/ \E c \in CallSlots : updateItem(c)
  \/ \E c \in CallSlots : deleteItem(c)
  \/ \E c \in CallSlots : reorderItems(c)
  \/ \E c \in CallSlots : hookRemoteOk(c)
  \/ \E c \in CallSlots : hookRemoteErr(c)
  \/ \E c \in CallSlots : fetchTripsAfterCreate(c)
  \/ \E c \in CallSlots : reorderPersist(c)

SpecOnline == InitOnline /\ [][NextOnline]_vars

\* ---------------------------------------------------------------- eventual sync
\* hook calls and environment events of a run in which every remote operation
\* succeeds
MaxLiveCalls == 1
MaxLiveEvents == 2

\* the app is opened, online or offline, on the queue an earlier session left
InitLive ==
  /\ online \in BOOLEAN
  /\ listeners = Subscribe(0)
  /\ \E order \in SeedOrders : queue = Enqueued(order)
  /\ nextId = Len(queue)
  /\ remote = [trips |-> LoadedTrips, trip_days |-> LoadedDays,
               itinerary_items |-> LoadedItems, nextId |-> FirstServerId]
  /\ trips = IF online THEN LoadedTrips ELSE <<>>
  /\ days = LoadedDays
  /\ items = LoadedItems
  /\ calls = [c \in CallSlots |-> IdleCall]
  /\ drains = [d \in DrainSlots |-> IdleDrain]
  /\ cache = LoadedCache
  /\ toast = NoToast
  /\ last = NoCall
  /\ result = NoResult
  /\ failedIds = {}
  /\ ev = NoEvent
  /\ stored = {DaysKey(tripId), ItemsKey(dayId), QUEUE_KEY}
  /\ sweep = <<>>
  /\ callsLeft = MaxLiveCalls
  /\ eventsLeft = MaxLiveEvents
  /\ reads = NoReads
  /\ feed = {}
  /\ replies = NoReplies
  /\ app = AppIdle(trips)
  /\ ServerIdle

\* what the program does by itself once it has been started: the pending
\* promises of hook calls and drains resolve
Progress ==
  \/ \E c \in CallSlots : queueMutation(c)
  \/ \E c \in CallSlots : hookRemoteOk(c)
  \/ \E d \in DrainSlots : flushBegin(d)
  \/ \E d \in DrainSlots : flushRemoteOk(d)
  \/ \E d \in DrainSlots : flushReorderStep(d)
  \/ \E d \in DrainSlots : removeMutation(d)

\* what the user and the platform do
Environment ==
  \/ \E c \in CallSlots : updateDay(c)
  \/ OnlineEvent
  \/ OfflineEvent
  \/ Restart

NextLive == Progress \/ Environment

\* the event loop runs every promise that resolves; the user and the platform
\* owe nothing
SpecLive == InitLive /\ [][NextLive]_vars /\ WF_vars(Progress)

\* ---------------------------------------------------------------- reads
\* what every run of the read hooks and of the cache functions starts from: no
\* call in flight, an empty queue, nc hook calls and ne events to come
QuietClient(nc, ne) ==
  /\ listeners = Subscribe(0)
  /\ queue = <<>>
  /\ nextId = 0
  /\ calls = [c \in CallSlots |-> IdleCall]
  /\ drains = [d \in DrainSlots |-> IdleDrain]
  /\ toast = NoToast
  /\ last = NoCall
  /\ result = NoResult
  /\ failedIds = {}
  /\ ev = NoEvent
  /\ sweep = <<>>
  /\ callsLeft = nc
  /\ eventsLeft = ne
  /\ reads = NoReads
  /\ feed = {}
  /\ replies = NoReplies
  /\ app = AppIdle(trips)

Quiet(nc, ne) == QuietClient(nc, ne) /\ ServerIdle

LoadedRemote ==
  [trips |-> LoadedTrips, trip_days |-> LoadedDays,
   itinerary_items |-> LoadedItems, nextId |-> FirstServerId]

\* the database after another device has added a trip, renamed the day and
\* deleted item 1
EditedElsewhere ==
  [trips |-> Append(LoadedTrips, [id |-> 3, name |-> 1, start_date |-> 0]),
   trip_days |-> <<[id |-> 1, title |-> 1]>>,
   itinerary_items |-> <<LoadedItems[2]>>,
   nextId |-> FirstServerId + 1]

\* calls of the read hooks in a run
MaxReadEvents == 3

\* the views have just been mounted: the lists are empty, the store holds the
\* snapshots of an earlier session or none
InitRead ==
  /\ online \in BOOLEAN
  /\ remote \in {LoadedRemote, EditedElsewhere}
  /\ trips = <<>>
  /\ days = <<>>
  /\ items = <<>>
  /\ stored \in SUBSET {DaysKey(tripId), ItemsKey(dayId)}
  /\ cache = [k \in CacheKeys |-> IF k \in stored THEN LoadedCache[k] ELSE <<>>]
  /\ Quiet(0, MaxReadEvents)

NextRead ==
  \/ fetchTrips
  \/ fetchTripsOk
  \/ fetchTripsErr
  \/ \E list \in CachedLists : fetchList(list)
  \/ \E list \in CachedLists : fetchCached(list)
  \/ \E list \in CachedLists : fetchOk(list)
  \/ \E list \in CachedLists : fetchErr(list)

SpecRead == InitRead /\ [][NextRead]_vars

\* ---------------------------------------------------------------- cache
\* writes and clears of a run on the cache functions
MaxCacheEvents == 3

\* a new installation: the store holds nothing
InitCache ==
  /\ online \in BOOLEAN
  /\ remote = LoadedRemote
  /\ trips = LoadedTrips
  /\ days = LoadedDays
  /\ items = LoadedItems
  /\ stored = {}
  /\ cache = [k \in CacheKeys |-> <<>>]
  /\ Quiet(0, MaxCacheEvents)

NextCache ==
  \/ \E t \in TripIds : \E snapshot \in DaySnapshots : cacheTripDays(t, snapshot)
  \/ \E d \in DayIds : \E snapshot \in ItemSnapshots : cacheItems(d, snapshot)
  \/ clearAllCache
  \/ clearAllCacheDel

SpecCache == InitCache /\ [][NextCache]_vars

\* ---------------------------------------------------------------- server specs
\* the client at rest while the server side is exercised
ClientAtRest ==
  /\ online = TRUE
  /\ remote = LoadedRemote
  /\ trips = LoadedTrips
  /\ days = LoadedDays
  /\ items = LoadedItems
  /\ stored = {DaysKey(tripId), ItemsKey(dayId)}
  /\ cache = LoadedCache
  /\ QuietClient(0, 0)

\* the roles a user other than the creator can have in a trip
MemberRoles == {"editor", "viewer"}

\* trip_members with the owner row of each trip (on_trip_created) and any
\* rows invitations have added
MemberTables ==
  LET others == {p \in SharedTrips \X Users : p[2] # Creator[p[1]]} IN
  { {[trip_id |-> t, user_id |-> Creator[t], role |-> "owner"] : t \in SharedTrips}
      \cup {[trip_id |-> p[1], user_id |-> p[2], role |-> f[p]] :
              p \in {q \in others : f[q] # Null}} :
    f \in [others -> MemberRoles \cup {Null}] }

InitShare ==
  /\ ClientAtRest
  /\ members \in MemberTables
  /\ rpc = NoRpc
  /\ api = NoRequest
  /\ tripRows = {NewTrip(t, Creator[t], 1, 1) : t \in SharedTrips}
  /\ dayRows = UNION {GeneratedDays(r) : r \in tripRows}

NextShare ==
  \E uid \in Users \cup {Null}, t \in SharedTrips, u \in Users :
    remove_trip_member(uid, t, u)

SpecShare == InitShare /\ [][NextShare]_vars

\* trips are created, members invited and removed, starting from empty tables
InitTeam ==
  /\ ClientAtRest
  /\ ServerIdle

NextTeam ==
  \/ \E uid \in Users, t \in SharedTrips : insert_trip(uid, t, 1, 1)
  \/ \E uid \in Users \cup {Null}, t \in SharedTrips, e \in Emails, r \in InviteRoles :
       invite_trip_member(uid, t, e, r)
  \/ \E uid \in Users \cup {Null}, t \in SharedTrips, u \in Users :
       remove_trip_member(uid, t, u)

SpecTeam == InitTeam /\ [][NextTeam]_vars

\* the dates a trip can start and end on
Dates == {1, 2, 3}

\* trips are created and their dates edited, starting from empty tables
InitDays ==
  /\ ClientAtRest
  /\ ServerIdle

NextDays ==
  \/ \E t \in SharedTrips, s \in Dates, e \in Dates : insert_trip("u1", t, s, e)
  \/ \E t \in SharedTrips, s \in Dates :
       \E e \in {d \in Dates : s <= d} : update_trip(t, s, e)

SpecDays == InitDays /\ [][NextDays]_vars

InitApi ==
  /\ ClientAtRest
  /\ ServerIdle

NextApi == serve

SpecApi == InitApi /\ [][NextApi]_vars

\* ---------------------------------------------------------------- refresh
\* one edit while offline, the reconnect, the drain and the change feed, with
\* every remote operation succeeding
MaxFeedCalls == 1
MaxFeedEvents == 1

InitFeed ==
  /\ online = FALSE
  /\ Fresh(MaxFeedCalls, MaxFeedEvents)

\* what the program does by itself: pending promises resolve, change events
\* are delivered
FeedProgress ==
  \/ \E c \in CallSlots : queueMutation(c)
  \/ \E d \in DrainSlots : flushBegin(d)
  \/ \E d \in DrainSlots : flushRemoteOk(d)
  \/ \E d \in DrainSlots : removeMutation(d)
  \/ \E table \in Subscribed : realtime(table)
  \/ \E list \in CachedLists : fetchCached(list)
  \/ \E list \in CachedLists : fetchOk(list)

\* what the user and the platform do
FeedEnvironment ==
  \/ \E c \in CallSlots : createTrip(c)
  \/ \E c \in CallSlots : updateTrip(c)
  \/ \E c \in CallSlots : deleteTrip(c)
  \/ \E c \in CallSlots : updateDay(c)
  \/ \E c \in CallSlots : addItem(c)
  \/ \E c \in CallSlots : updateItem(c)
  \/ \E c \in CallSlots : deleteItem(c)
  \/ OnlineEvent

NextFeed == FeedProgress \/ FeedEnvironment

SpecFeed == InitFeed /\ [][NextFeed]_vars /\ WF_vars(FeedProgress)

\* ---------------------------------------------------------------- overlapping reads
\* one online edit and one more call of fetchDays or fetchItems by the view,
\* with the change feed, every select and every write succeeding, and answers
\* that may be overtaken
MaxOverlapCalls == 1
MaxOverlapEvents == 1

InitOverlap ==
  /\ online = TRUE
  /\ Fresh(MaxOverlapCalls, MaxOverlapEvents)

NextOverlap ==
  \/ \E c \in CallSlots : updateDay(c)
  \/ \E c \in CallSlots : addItem(c)
  \/ \E c \in CallSlots : updateItem(c)
  \/ \E c \in CallSlots : deleteItem(c)
  \/ \E c \in CallSlots : hookRemoteOk(c)
  \/ \E list \in CachedLists : fetchList(list)
  \/ \E table \in Subscribed : realtime(table)
  \/ \E list \in CachedLists : fetchCached(list)
  \/ \E list \in CachedLists : fetchOk(list)
  \/ \E list \in CachedLists : selectRuns(list)
  \/ \E list \in CachedLists : replyArrives(list)

SpecOverlap == InitOverlap /\ [][NextOverlap]_vars

\* ---------------------------------------------------------------- selection
\* an online session in which trips are created and deleted, the trip list is
\* fetched, and trips are selected and left (TripList's onDeleteTrip calls
\* setSelectedTripId(null) while TripList is rendered, where the id is null
\* already: it changes nothing)
MaxAppCalls == 1
MaxAppEvents == 2

InitApp ==
  /\ online = TRUE
  /\ Fresh(MaxAppCalls, MaxAppEvents)

NextApp ==
  \/ \E c \in CallSlots : createTrip(c)
  \/ \E c \in CallSlots : deleteTrip(c)
  \/ \E c \in CallSlots : hookRemoteOk(c)
  \/ \E c \in CallSlots : fetchTripsAfterCreate(c)
  \/ fetchTrips
  \/ fetchTripsOk
  \/ selectRuns("trips")
  \/ replyArrives("trips")
  \/ \E k \in 1..MaxMutations : onSelectTrip(k)
  \/ onBack
  \/ selectedTripEffect
  \/ \E s \in FetchSlots : tripReply(s)

SpecApp == InitApp /\ [][NextApp]_vars

\* ---------------------------------------------------------------- snapshot
\* edits made offline and while a drain runs; remote operations and queue
\* writes succeed or fail
MaxSnapshotCalls == 2
MaxSnapshotEvents == 2

InitSnapshot ==
  /\ online = FALSE
  /\ Fresh(MaxSnapshotCalls, MaxSnapshotEvents)

NextSnapshot ==
  \/ \E c \in CallSlots : updateDay(c)
  \/ \E c \in CallSlots : deleteItem(c)
  \/ \E c \in CallSlots : queueMutation(c)
  \/ \E c \in CallSlots : hookRemoteOk(c)
  \/ \E d \in DrainSlots : flushBegin(d)
  \/ \E d \in DrainSlots : flushRemoteOk(d)
  \/ \E d \in DrainSlots : flushRemoteErr(d)
  \/ \E d \in DrainSlots : removeMutation(d)
  \/ \E d \in DrainSlots : removeMutationFails(d)
  \/ OnlineEvent
  \/ OfflineEvent

SpecSnapshot == InitSnapshot /\ [][NextSnapshot]_vars

\* ---------------------------------------------------------------- properties
\* the flushMutationQueue call in slot d returns in this step
Returns(d) ==
  /\ InFlight(d)
  /\ drains'[d].pc = "idle"
  /\ eventsLeft' = eventsLeft

\* a queue of insert, update and delete mutations
Plain(q) == \A k \in 1..Len(q) : q[k].type \in {"insert", "update", "delete"}

DrainAloneStep(d) ==
  LET rec == drains[d]
      successes == {id \in IdSet(rec.snap) : id \in rec.oks}
  IN
  (Returns(d) /\ rec.clean /\ Plain(rec.snap)) =>
    /\ rec.sent = Ids(rec.snap)
    /\ queue' = SelectSeq(rec.snap, LAMBDA m : m.id \notin successes)
    /\ result' = [flushed |-> Cardinality(successes),
                  failed |-> Len(rec.snap) - Cardinality(successes)]

\* C1: a drain that overlaps no other access to the queue, on a queue of insert,
\* update and delete mutations, attempts every mutation of the queue, leaves
\* exactly the mutations whose remote operation failed, in their order, and
\* returns the number of remote successes as flushed and the number of remote
\* failures as failed.
C1_DrainAlone == [][\A d \in DrainSlots : DrainAloneStep(d)]_vars

\* C2: within one drain the remote operations are issued in the order of the
\* queue the drain read, as one sequence whatever the table or type, and an
\* operation is issued only when every operation issued before it has returned.
C2_QueueOrder ==
  \A d \in DrainSlots :
    LET rec == drains[d] IN
    rec.pc \in {"remote", "rmset"} =>
      /\ Len(rec.sent) >= 1
      /\ rec.sent = SubSeq(Ids(rec.snap), 1, Len(rec.sent))
      /\ IsPrefix(rec.back, rec.sent)
      /\ Len(rec.sent) - Len(rec.back) = (IF rec.pc = "remote" THEN 1 ELSE 0)

\* a drain has issued the update of item 1, then the insert of a trip, and now
\* the delete of item 1, the first two having returned
C2_Reached ==
  \E d \in DrainSlots :
    LET rec == drains[d] IN
    /\ rec.pc = "remote"
    /\ rec.sent = <<1, 2, 3>>
    /\ rec.back = <<1, 2>>
    /\ rec.snap[1].type = "update" /\ rec.snap[1].table = "itinerary_items"
    /\ rec.snap[2].type = "insert" /\ rec.snap[2].table = "trips"
    /\ rec.snap[3].type = "delete" /\ rec.snap[3].payload.id = rec.snap[1].payload.id

\* queueMutation returns to the hook in slot c in this step
Enqueues(c) ==
  /\ calls[c].pc = "qset"
  /\ calls'[c].pc = "idle"
  /\ last'.res = "ok"

DistinctIds(q) == \A j, k \in 1..Len(q) : q[j].id = q[k].id => j = k

Pos(q, id) == CHOOSE k \in 1..Len(q) : q[k].id = id

\* the entries that are in both q and r are in the same order in both
SameOrder(q, r) ==
  \A j, k \in 1..Len(q) :
    (j < k /\ q[j].id \in IdSet(r) /\ q[k].id \in IdSet(r)) =>
      Pos(r, q[j].id) < Pos(r, q[k].id)

\* C3: a queueMutation call that overlaps no other write to the queue appends
\* exactly one entry, after all the entries the queue held, with the type, table
\* and payload passed in and an id no other entry has; all ids in the queue are
\* distinct; and no step changes the relative order of entries that stay in the
\* queue.
C3_AppendInCallOrder ==
  [][/\ \A c \in CallSlots :
          (Enqueues(c) /\ calls[c].met = {}) =>
            LET new == queue'[Len(queue')] IN
            /\ Len(queue') = Len(queue) + 1
            /\ IsPrefix(queue, queue')
            /\ new.type = calls[c].mut.type
            /\ new.table = calls[c].mut.table
            /\ new.payload = calls[c].mut.payload
            /\ new.id \notin IdSet(queue)
     /\ DistinctIds(queue')
     /\ SameOrder(queue, queue')]_vars

\* two calls, the second started after the first returned, have queued the update
\* of item 1 and then its delete, and the queue holds the two in call order
C3_Reached ==
  /\ nextId = 2
  /\ Ids(queue) = <<1, 2>>
  /\ queue[1].type = "update" /\ queue[1].payload.id = 1
  /\ queue[2].type = "delete" /\ queue[2].payload.id = 1
  /\ queue[2].table = "itinerary_items"
  /\ last = [op |-> "deleteItem", path |-> "offline", res |-> "ok"]
  /\ \A c \in CallSlots : ~Running(c)

\* C4: a queueMutation call that overlapped another queueMutation call (and no
\* other write to the queue) adds its entry and loses none of the entries the
\* queue holds.
C4_OverlapKeepsBoth ==
  [][\A c \in CallSlots :
       (Enqueues(c) /\ calls[c].met = {"enqueue"}) =>
         /\ IdSet(queue) \subseteq IdSet(queue')
         /\ Len(queue') = Len(queue) + 1]_vars

\* the mutation type and table that belong to each write hook
HookType ==
  [createTrip |-> "insert", updateTrip |-> "update", deleteTrip |-> "delete",
   updateDay |-> "update", addItem |-> "insert", updateItem |-> "update",
   deleteItem |-> "delete", reorderItems |-> "reorder"]

HookTable ==
  [createTrip |-> "trips", updateTrip |-> "trips", deleteTrip |-> "trips",
   updateDay |-> "trip_days", addItem |-> "itinerary_items",
   updateItem |-> "itinerary_items", deleteItem |-> "itinerary_items",
   reorderItems |-> "itinerary_items"]

\* row carries every field of u
Carries(row, u) == \A f \in DOMAIN u : f \in DOMAIN row /\ row[f] = u[f]

\* the lists l show the edit that hook op makes with payload p to the lists old
Shows(op, p, old, l) ==
  CASE op = "createTrip" ->
         /\ Len(l.trips) = Len(old.trips) + 1
         /\ \E k \in 1..Len(l.trips) : Carries(l.trips[k], p)
    [] op = "addItem" ->
         /\ Len(l.items) = Len(old.items) + 1
         /\ \E k \in 1..Len(l.items) : Carries(l.items[k], p)
    [] op = "updateTrip" ->
         \A k \in 1..Len(l.trips) : l.trips[k].id = p.id => Carries(l.trips[k], p)
    [] op = "updateDay" ->
         \A k \in 1..Len(l.days) : l.days[k].id = p.id => Carries(l.days[k], p)
    [] op = "updateItem" ->
         \A k \in 1..Len(l.items) : l.items[k].id = p.id => Carries(l.items[k], p)
    [] op = "deleteTrip" -> \A k \in 1..Len(l.trips) : l.trips[k].id # p.id
    [] op = "deleteItem" -> \A k \in 1..Len(l.items) : l.items[k].id # p.id
    [] op = "reorderItems" ->
         \A k \in 1..Len(l.items) : \A j \in 1..Len(p.items) :
           l.items[k].id = p.items[j].id => Carries(l.items[k], p.items[j])
    [] OTHER -> FALSE

\* C5: when a write hook called with navigator.onLine false returns, in-memory
\* state shows the edit, the queue has grown by one mutation of the hook's type
\* and table, and the database has not been touched (stated for calls that
\* overlap no other write to the queue).
C5_OfflineWriteShown ==
  [][\A c \in CallSlots :
       (Enqueues(c) /\ calls[c].path = "offline" /\ calls[c].met = {}) =>
         /\ Shows(calls[c].op, calls[c].mut.payload, Lists,
                  [trips |-> trips', days |-> days', items |-> items'])
         /\ Len(queue') = Len(queue) + 1
         /\ queue'[Len(queue')].type = HookType[calls[c].op]
         /\ queue'[Len(queue')].table = HookTable[calls[c].op]
         /\ remote' = remote]_vars

\* the queue store rejects the write of the queueMutation call of slot c in this
\* step: the call ends and no id has been stored
Rejected(c) ==
  /\ calls[c].pc = "qset"
  /\ calls'[c].pc = "idle"
  /\ nextId' = nextId
  /\ eventsLeft' = eventsLeft

\* C6: when the queue store rejects queueMutation's write, the hook throws and
\* in-memory state is as the hook found it (stated for calls that overlap no
\* other hook call).
C6_RejectedWriteUndone ==
  [][\A c \in CallSlots :
       (Rejected(c) /\ calls[c].met = {}) =>
         /\ last' = [op |-> calls[c].op, path |-> "offline", res |-> "threw"]
         /\ trips' = calls[c].was.trips
         /\ days' = calls[c].was.days
         /\ items' = calls[c].was.items]_vars

\* the hooks C7 is about
CheckedWrites ==
  {"createTrip", "updateTrip", "deleteTrip", "updateDay", "addItem", "updateItem",
   "deleteItem"}

\* the remote operation of the online call in slot c returns success in this
\* step (for createTrip: the fetch that follows its insert returns)
SucceedsOnline(c) ==
  /\ calls[c].path = "online"
  /\ calls[c].op \in CheckedWrites
  /\ \/ calls[c].pc = "remote" /\ hookRemoteOk(c)
     \/ calls[c].pc = "fetch" /\ fetchTripsAfterCreate(c)

\* C7: with navigator.onLine true, in-memory state changes for createTrip,
\* updateTrip, deleteTrip, updateDay, addItem, updateItem and deleteItem only in a
\* step in which the remote operation has returned success; when the remote
\* operation returns an error the hook throws, in-memory state and the queue
\* are unchanged; and no step of an online call changes the queue (a step of a
\* call: one that is no environment event).
C7_OnlineWrite ==
  [][\A c \in CallSlots :
       /\ (calls[c].path = "online" /\ calls[c].op \in CheckedWrites
              /\ calls'[c] # calls[c] /\ eventsLeft' = eventsLeft) =>
            /\ queue' = queue
            /\ (trips' # trips \/ days' # days \/ items' # items) => SucceedsOnline(c)
       /\ hookRemoteErr(c) =>
            /\ last' = [op |-> calls[c].op, path |-> "online", res |-> "threw"]
            /\ trips' = trips /\ days' = days /\ items' = items
            /\ queue' = queue
            /\ remote' = remote]_vars

\* an online updateItem has thrown and the items and the queue are as before
C7_Reached ==
  /\ last = [op |-> "updateItem", path |-> "online", res |-> "threw"]
  /\ items = LoadedItems
  /\ queue = <<>>
  /\ online

\* the flushMutationQueue calls that start in this step
StartedNow == {d \in DrainSlots : drains[d].pc = "idle" /\ drains'[d].pc = "read"}

\* C9: an 'online' event calls the connectivity callback once, with true, and
\* starts one flushMutationQueue call; an 'offline' event calls it once, with
\* false, and starts none.
C9_OncePerEvent ==
  [][/\ (~online /\ online') =>
          /\ ev' = [kind |-> "online", calls |-> <<TRUE>>, started |-> 1]
          /\ Cardinality(StartedNow) = 1
          /\ \A d \in DrainSlots \ StartedNow : drains'[d].pc = drains[d].pc
     /\ (online /\ ~online') =>
          /\ ev' = [kind |-> "offline", calls |-> <<FALSE>>, started |-> 0]
          /\ StartedNow = {}
          /\ drains' = drains]_vars

\* the second 'online' event of a run has just started a drain while the drain
\* of the first is still in flight
C9_Reached ==
  /\ ev = [kind |-> "online", calls |-> <<TRUE>>, started |-> 1]
  /\ online
  /\ \E d, e \in DrainSlots : drains[d].pc = "read" /\ drains[e].pc \in {"remote", "rmset"}

\* the drain in slot d, for which the remote operation of mutation id has
\* succeeded, writes the queue without it
RemovedOnSuccess(d, id) ==
  /\ drains[d].pc = "rmset"
  /\ id \in drains[d].oks
  /\ removeMutation(d)

\* C10: a drain reads the whole queue when it starts, whatever failed before,
\* and has attempted all of it when it returns; and a mutation a drain has left
\* in the queue leaves the queue only when a drain removes it after its remote
\* operation succeeded or by clearMutationQueue.
C10_RetriedUntilSuccess ==
  [][/\ \A d \in StartedNow : drains'[d].snap = queue
     /\ \A d \in DrainSlots : Returns(d) => drains[d].sent = Ids(drains[d].snap)
     /\ \A id \in failedIds :
          (id \in IdSet(queue) /\ id \notin IdSet(queue')) =>
            \/ clearMutationQueue
            \/ \E d \in DrainSlots : RemovedOnSuccess(d, id)]_vars

\* C11: when a drain returns with at least one mutation flushed or failed, a
\* toast with its flushed and failed counts is shown, also when flushed is 0.
C11_DrainReported ==
  [][\A d \in DrainSlots :
       (Returns(d) /\ result'.flushed + result'.failed > 0) =>
         /\ toast'.type \in {"success", "error"}
         /\ toast'.flushed = result'.flushed
         /\ toast'.failed = result'.failed]_vars

\* the flushMutationQueue call in slot d, having read an empty queue, takes its
\* step
EmptyDrainStep(d) ==
  /\ drains[d].pc = "read"
  /\ drains[d].snap = <<>>
  /\ drains'[d].pc # "read"
  /\ eventsLeft' = eventsLeft

\* C13: a flushMutationQueue call that read an empty queue returns
\* {flushed: 0, failed: 0} in its next step, without a remote operation and
\* without a write to the queue store.
C13_EmptyDrain ==
  [][\A d \in DrainSlots :
       EmptyDrainStep(d) =>
         /\ drains'[d].pc = "idle"
         /\ result' = [flushed |-> 0, failed |-> 0]
         /\ remote' = remote
         /\ queue' = queue
         /\ stored' = stored
         /\ toast' = toast]_vars

\* the one event of the run was an 'online' event on an empty queue, and the
\* drain it started has returned
C13_Reached ==
  /\ eventsLeft = MaxSyncEvents - 1
  /\ ev = [kind |-> "online", calls |-> <<TRUE>>, started |-> 1]
  /\ nextId = 0
  /\ queue = <<>>
  /\ \A d \in DrainSlots : ~InFlight(d)
  /\ result = [flushed |-> 0, failed |-> 0]

\* q without its k-th entry
Without(q, k) == SubSeq(q, 1, k - 1) \o SubSeq(q, k + 1, Len(q))

\* removeMutation's set of the drain in slot d is issued in this step, no other
\* write to the queue having come between its get and its set
RemovesNow(d) ==
  /\ drains[d].pc = "rmset"
  /\ drains[d].q = queue
  /\ drains'[d].pc # "rmset"
  /\ result'.failed + drains'[d].failed = drains[d].failed
  /\ eventsLeft' = eventsLeft

\* C14: removeMutation(id) leaves the queue without the entry of that id and
\* with all other entries in their order; when no entry has that id the queue is
\* left as it was; and removing the same id once more changes nothing.
C14_RemoveIdempotent ==
  [][\A d \in DrainSlots :
       RemovesNow(d) =>
         LET id == Current(drains[d]).id IN
         /\ id \in IdSet(queue) => queue' = Without(queue, Pos(queue, id))
         /\ id \notin IdSet(queue) => queue' = queue
         /\ RemoveFrom(queue', id) = queue'
         /\ \A other \in (1..MaxMutations) \ IdSet(queue') :
              RemoveFrom(queue', other) = queue']_vars

\* two drains have each removed the first of two mutations, the later removal
\* finding it gone already, and only the second mutation is in the queue
C14_Reached ==
  /\ drains[1].flushed = 1 /\ drains[2].flushed = 1
  /\ drains[1].pc = "remote" /\ drains[2].pc = "remote"
  /\ Len(drains[1].snap) = 2 /\ drains[2].snap = drains[1].snap
  /\ Ids(queue) = <<2>>

\* C19: a drain removes a reorder mutation and counts it as flushed only when
\* every one of its per-item updates succeeded; when one of them returned an
\* error the mutation stays in the queue.
C19_ReorderAllOrNothing ==
  [][\A d \in DrainSlots :
       (drains[d].pc = "rmset" /\ Current(drains[d]).type = "reorder"
          /\ drains[d].jerr /\ eventsLeft' = eventsLeft) =>
         /\ Current(drains[d]).id \in IdSet(queue) =>
              Current(drains[d]).id \in IdSet(queue')
         /\ drains'[d].flushed + result'.flushed <= drains[d].flushed]_vars

\* C20: a reorderItems call made with navigator.onLine true, one of whose
\* per-item updates returned an error, throws to its caller.
C20_ReorderErrorThrown ==
  [][\A c \in CallSlots :
       (calls[c].op = "reorderItems" /\ calls[c].path = "online" /\ calls[c].jerr
          /\ calls'[c].pc = "idle" /\ eventsLeft' = eventsLeft) =>
         last' = [op |-> "reorderItems", path |-> "online", res |-> "threw"]]_vars

\* the list of the hooks' state that a read hook sets
ListOf(list) ==
  CASE list = "trips" -> trips [] list = "days" -> days [] list = "items" -> items

\* some key of the store holds rows as its snapshot
Held(rows) == \E k \in stored \cap CacheKeys : cache[k] = rows

\* the snapshot of the list under its key
SnapshotOf(list) ==
  IF list = "days" THEN getCachedTripDays(tripId) ELSE getCachedItems(dayId)

\* C12: a read hook sets its list from the cached snapshot when there is one
\* and then issues the fetch; when the fetch succeeds the list and the cached
\* snapshot of the list are the fetched rows; when it fails the list and the
\* store are left as they were. For the trip list, the days and the items.
C12_CacheThenRemote ==
  [][/\ \A list \in CachedLists :
          /\ (reads[list].pc = "cache" /\ reads'[list].pc = "fetch"
                /\ reads[list].got.present) =>
               ListOf(list)' = reads[list].got.value
          /\ reads'[list].pc = "fetch" => reads[list].pc \in {"cache", "fetch"}
          /\ fetchOk(list) =>
               /\ ListOf(list)' = Fetched(list)
               /\ SnapshotOf(list)' = [present |-> TRUE, value |-> Fetched(list)]
          /\ fetchErr(list) =>
               /\ ListOf(list)' = ListOf(list)
               /\ cache' = cache /\ stored' = stored
     /\ fetchTripsOk => (trips' = Fetched("trips") /\ Held(trips)')
     /\ fetchTripsErr => (trips' = trips /\ cache' = cache /\ stored' = stored)]_vars

\* C15: in a store that starts empty, a read before any write finds nothing;
\* cacheTripDays(t, s) makes getCachedTripDays(t) return s and cacheItems(d, s)
\* makes getCachedItems(d) return s, whole; neither changes what is read under
\* any other trip or day, or the queue; and a read that found nothing finds a
\* snapshot only after a write under its key.
C15_CacheRoundTrip ==
  /\ \A t \in TripIds : getCachedTripDays(t) = Absent
  /\ \A d \in DayIds : getCachedItems(d) = Absent
  /\ [][/\ \A t \in TripIds : \A snapshot \in DaySnapshots :
             cacheTripDays(t, snapshot) =>
               /\ getCachedTripDays(t)' = [present |-> TRUE, value |-> snapshot]
               /\ \A u \in TripIds \ {t} : getCachedTripDays(u)' = getCachedTripDays(u)
               /\ \A d \in DayIds : getCachedItems(d)' = getCachedItems(d)
               /\ queue' = queue
        /\ \A d \in DayIds : \A snapshot \in ItemSnapshots :
             cacheItems(d, snapshot) =>
               /\ getCachedItems(d)' = [present |-> TRUE, value |-> snapshot]
               /\ \A e \in DayIds \ {d} : getCachedItems(e)' = getCachedItems(e)
               /\ \A t \in TripIds : getCachedTripDays(t)' = getCachedTripDays(t)
               /\ queue' = queue
        /\ \A t \in TripIds :
             (getCachedTripDays(t) = Absent /\ getCachedTripDays(t)' # Absent) =>
               \E snapshot \in DaySnapshots : cacheTripDays(t, snapshot)
        /\ \A d \in DayIds :
             (getCachedItems(d) = Absent /\ getCachedItems(d)' # Absent) =>
               \E snapshot \in ItemSnapshots : cacheItems(d, snapshot)]_vars

\* the items of day 1 and of day 2 and the days of trip 2 have been written,
\* each key holds what was written under it, and nothing was written for trip 1
C15_Reached ==
  /\ getCachedItems(1) = [present |-> TRUE, value |-> LoadedItems]
  /\ getCachedItems(2) = [present |-> TRUE, value |-> <<>>]
  /\ getCachedTripDays(2) = [present |-> TRUE, value |-> LoadedDays]
  /\ getCachedTripDays(1) = Absent

\* in-memory state is what the selects of the read hooks return now
InSync ==
  /\ trips = Fetched("trips")
  /\ days = Fetched("days")
  /\ items = Fetched("items")

\* C18: once a drain has flushed mutations, and while the device stays online,
\* in-memory state comes to equal the database for the trips, the days and
\* the items.
C18_RefreshedAfterDrain == [](result.flushed > 0 => <>InSync)

\* C17: remove_trip_member deletes a row of trip_members only when the caller
\* is the owner of that trip or is the member the row is of.
C17_RemoveOnlyByOwnerOrSelf ==
  [][\A r \in members \ members' :
       \/ RoleOf(members, r.trip_id, rpc'.uid) = "owner"
       \/ rpc'.uid = r.user_id]_vars

\* header is apiKey sent as a bearer token: the scheme Bearer in any case, white
\* space, the key
IsBearerOf(header, apiKey) ==
  \E n \in 1..(Len(header) - 1) :
    /\ Lower(header[1]) = "bearer"
    /\ \A i \in 2..(n + 1) : IsSpace(header[i])
    /\ SubSeq(header, n + 2, Len(header)) = apiKey

\* the handled request was refused: 401, {ok: false}, no database access
Refused ==
  /\ api.res.status = 401
  /\ api.res.ok = FALSE
  /\ api.res.db = {}

\* a request other than OPTIONS has been handled
Handled == api # NoRequest /\ api.method # "OPTIONS"

SentBy(id) ==
  {d \in DrainSlots : \E k \in 1..Len(drains[d].sent) : drains[d].sent[k] = id}

\* C21: flushMutationQueue is not guarded against re-entry: an 'online' event
\* that fires while a drain is in flight starts one more drain, whose snapshot
\* is the whole stored queue, the entries the drain in flight has dispatched
\* and not yet removed included; and a drain dispatches the next mutation of
\* its snapshot whether or not another drain has dispatched it.
C21_NoReentrancyGuard ==
  [][/\ (~online /\ online' /\ (\E d \in DrainSlots : InFlight(d))) =>
          \E d \in DrainSlots :
            /\ ~InFlight(d)
            /\ drains'[d].pc = "read"
            /\ drains'[d].snap = queue
            /\ \A b \in DrainSlots \ {d} : InFlight(b) => drains'[b].pc = drains[b].pc
     /\ \A d \in DrainSlots :
          (/\ InFlight(d)
           /\ drains'[d].pc # "idle"
           /\ drains[d].i < Len(drains[d].snap)
           /\ drains'[d].i # drains[d].i) =>
            /\ drains'[d].pc = "remote"
            /\ drains'[d].sent = Append(drains[d].sent, drains[d].snap[drains[d].i + 1].id)
    ]_vars

\* both drains have sent the same insert and the database has taken it twice
C21_Reached ==
  \E id \in 1..MaxMutations :
    /\ SentBy(id) = DrainSlots
    /\ \A d \in DrainSlots : id \in drains[d].oks
    /\ Len(remote.trips) = Len(LoadedTrips) + 2

\* the rows of trip_members for trip t
RowsOf(m, t) == {r \in m : r.trip_id = t}

\* C22: every trip has exactly one member with role 'owner', its creator, and
\* at most one row for each user; an invite adds a row only when the caller is
\* the trip's owner, the role is 'editor' or 'viewer' and the invited user had
\* no row in the trip; no call deletes an owner's row.
C22_OneOwner ==
  /\ [](\A t \in tripRows :
          /\ {r \in RowsOf(members, t.id) : r.role = "owner"} = {OwnerRow(t)}
          /\ \A r1, r2 \in RowsOf(members, t.id) : r1.user_id = r2.user_id => r1 = r2)
  /\ [][/\ \A r \in members' \ members :
             \/ /\ rpc'.fn = "insert_trip"
                /\ r = [trip_id |-> rpc'.p_trip_id, user_id |-> rpc'.uid, role |-> "owner"]
             \/ /\ rpc'.fn = "invite_trip_member"
                /\ RoleOf(members, rpc'.p_trip_id, rpc'.uid) = "owner"
                /\ r.trip_id = rpc'.p_trip_id
                /\ r.role \in {"editor", "viewer"}
                /\ RoleOf(members, r.trip_id, r.user_id) = Null
        /\ \A r \in members \ members' : r.role # "owner"
       ]_vars

\* trip 1 has its owner and an editor, trip 2 another owner, who has just
\* invited the owner of trip 1 as a viewer
C22_Reached ==
  /\ rpc.fn = "invite_trip_member"
  /\ rpc.res = "ok"
  /\ rpc.uid = "u3"
  /\ RowsOf(members, 1) = {[trip_id |-> 1, user_id |-> "u1", role |-> "owner"],
                           [trip_id |-> 1, user_id |-> "u2", role |-> "editor"]}
  /\ RowsOf(members, 2) = {[trip_id |-> 2, user_id |-> "u3", role |-> "owner"],
                           [trip_id |-> 2, user_id |-> "u1", role |-> "viewer"]}

\* a turn of clearAllCache's loop is taken in this step
ClearsKey == sweep # <<>> /\ sweep' = Tail(sweep)

\* C23: clearAllCache deletes snapshots only: no turn of its loop changes what
\* getQueuedMutations returns.
C23_ClearKeepsQueue == [][ClearsKey => queue' = queue]_vars

\* removeMutation's set of the only drain in flight is issued in this step
RemoveSet(d) ==
  /\ drains[d].pc = "rmset"
  /\ drains'[d].pc # "rmset"
  /\ failedIds' = failedIds
  /\ eventsLeft' = eventsLeft
  /\ \A b \in DrainSlots \ {d} : ~InFlight(b)

\* C24: when a queueMutation call overlaps a removeMutation call of the drain,
\* the set of queueMutation stores the queue as it is then plus the new entry
\* (an entry the drain has removed does not come back), and the set of
\* removeMutation stores the queue as it is then without the removed entry (an
\* entry enqueued meanwhile is not lost).
C24_OverlapWithRemove ==
  [][/\ \A c \in CallSlots :
          (Enqueues(c) /\ calls[c].met \subseteq {"remove"}) =>
            IdSet(queue') = IdSet(queue) \cup {nextId'}
     /\ \A d \in DrainSlots :
          RemoveSet(d) =>
            IdSet(queue') = IdSet(queue) \ {Current(drains[d]).id}
    ]_vars

\* the ids of the rows a mutation writes to (an insert makes a new row)
RecordsOf(m) ==
  CASE m.type \in {"update", "delete"} -> {m.payload.id}
    [] m.type = "reorder" -> {m.payload.items[k].id : k \in 1..Len(m.payload.items)}
    [] OTHER -> {}

SameRecord(m, n) == m.table = n.table /\ RecordsOf(m) \cap RecordsOf(n) # {}

\* the remote operation of the online write in slot c is applied in this step
AppliedOnline(c) ==
  /\ calls[c].pc = "remote"
  /\ calls[c].path = "online"
  /\ calls'[c].pc # "remote"
  /\ last'.res # "threw"
  /\ eventsLeft' = eventsLeft

\* C25: when the remote operation of an online write is applied, the queue
\* holds no mutation on the same record: an older offline write to the record
\* is never replayed over it.
C25_OnlineAfterQueued ==
  [][\A c \in CallSlots :
       AppliedOnline(c) =>
         \A k \in 1..Len(queue) : ~SameRecord(queue[k], calls[c].mut)
    ]_vars

\* the drain in slot d counts its current mutation as failed in this step
FailsNow(d) ==
  /\ InFlight(d)
  /\ eventsLeft' = eventsLeft
  /\ (IF drains'[d].pc = "idle" THEN result'.failed ELSE drains'[d].failed)
       = drains[d].failed + 1

\* C26: a drain counts a mutation as failed only when its remote operation
\* failed: a mutation whose operation the drain has seen succeed is not
\* counted as failed, whatever became of its removal from the stored queue.
C26_FailedMeansRemoteFailed ==
  [][\A d \in DrainSlots :
       FailsNow(d) => Current(drains[d]).id \notin drains[d].oks
    ]_vars

\* every call of the read hook of the list has completed, no change event for
\* it is waiting and no write is in flight
Settled(list) ==
  /\ reads[list].pc = "idle"
  /\ ~replies[list].present
  /\ \A t \in feed : FeedList[t] # list
  /\ \A c \in CallSlots : ~Running(c)

\* C27: once all fetches of a list have completed, the list in memory and its
\* cached snapshot are the rows of the fetch that was issued last. Every change
\* of the rows is followed by a fetch here and every select succeeds, so the
\* fetch issued last returned the rows as they are now.
C27_LastFetchWins ==
  \A list \in CachedLists :
    Settled(list) =>
      /\ ListOf(list) = Fetched(list)
      /\ SnapshotOf(list) = [present |-> TRUE, value |-> Fetched(list)]

\* C28: a trip with start_date <= end_date has exactly the trip_days rows of
\* the dates from start_date to end_date, so that every day number from 1 to
\* the number of days resolves to a day.
C28_DaysCoverDates ==
  \A t \in tripRows :
    t.start_date <= t.end_date =>
      /\ {d.date : d \in {r \in dayRows : r.trip_id = t.id}} = t.start_date..t.end_date
      /\ \A n \in 1..(t.end_date - t.start_date + 1) :
           getDayByNumber(tripRows, dayRows, t.id, n).found

\* C29: a drain works on the snapshot it read at its start: the snapshot does
\* not change while the drain runs, the mutations it dispatches are those of
\* the snapshot, each once and in order, and when it returns every one of them
\* has been dispatched and flushed + failed is the snapshot's length.
C29_SnapshotOnce ==
  [][\A d \in DrainSlots :
       (InFlight(d) /\ eventsLeft' = eventsLeft) =>
         /\ drains'[d].pc # "idle" =>
              /\ drains'[d].snap = drains[d].snap
              /\ IsPrefix(drains'[d].sent, Ids(drains[d].snap))
              /\ drains'[d].flushed + drains'[d].failed
                   = Len(drains'[d].sent) - (IF drains'[d].pc = "read" THEN 0 ELSE 1)
         /\ Returns(d) =>
              /\ drains[d].sent = Ids(drains[d].snap)
              /\ result'.flushed + result'.failed = Len(drains[d].snap)
    ]_vars

\* a drain has dispatched the one mutation of its snapshot and awaits its
\* outcome, while the queue holds a mutation enqueued after the
\* snapshot was read, which the drain did not dispatch
C29_Reached ==
  \E d \in DrainSlots :
    /\ InFlight(d)
    /\ Len(drains[d].snap) = 1
    /\ drains[d].sent = Ids(drains[d].snap)
    /\ \E k \in 1..Len(queue) : queue[k].id \notin IdSet(drains[d].snap)

\* the single-trip select in slot s is answered in this step
Answered(s) == app.fetches[s].pc = "sent" /\ app'.fetches[s].pc = "idle"

C8_EventuallySynced == []<>(~online \/ queue = <<>>)

====
